---- MODULE Spec2Model ----
(***************************************************************************)
(* Model of the chunked download engine of azure-storage-blob              *)
(* (aio/_download_async.py): StorageStreamDownloader, its concurrent chunk *)
(* scheduler, _AsyncChunkDownloader and _AsyncChunkIterator.               *)
(*                                                                         *)
(* Bytes of the blob are modelled by their position: the byte at absolute  *)
(* offset i has the value i + 1, so that a lost, duplicated or misplaced   *)
(* byte is visible; 0 is the padding a seek past the end of a stream       *)
(* leaves behind and the content of an empty page.  Client-side encryption *)
(* is the block-aligned scheme (version 1); the authenticated scheme       *)
(* (version 2) is not part of this development.                            *)
(***************************************************************************)
EXTENDS Integers, Sequences, FiniteSets, TLC

\* ------------------------------------------------------------------ bounds
MaxBlob == 4          \* largest blob length
MaxChunk == 2         \* largest max_chunk_get_size
MaxSingle == 2        \* largest max_single_get_size
MaxConc == 2          \* largest max_concurrency
MaxStart == 1         \* largest start_range
MaxEnd == 2           \* the end_range tried, when one is given
MaxCalls == 3         \* consumer calls per session that get past their checks
MaxFail == 1          \* transport failures injected per session
MaxAmount == 2        \* largest size / chars argument of read
MaxIters == 1         \* chunks() iterators handed out per session
MaxEtag == 1          \* times the blob is overwritten during a session

\* ------------------------------------------------------- program constants
None == -100          \* Python's None where an int is optional
maxsize == 1000       \* sys.maxsize, the "read everything" amount

\* None where a set of offsets is optional
NoMap == {None}

Min(a, b) == IF a < b THEN a ELSE b
Max(a, b) == IF a > b THEN a ELSE b

\* ------------------------------------------------------------- Python data
\* s[a:b] of a Python sequence (0-based, end-exclusive, negative = from end)
PySlice(s, a, b) ==
    LET n == Len(s)
        norm(i) == IF i < 0 THEN Max(i + n, 0) ELSE Min(i, n)
    IN  SubSeq(s, norm(a) + 1, norm(b))

Zeros(n) == [i \in 1..n |-> 0]

\* BytesIO / file semantics of seek(pos); write(data): a write past the end
\* pads with zeros, a write inside overwrites.
StreamWrite(st, pos, data) ==
    LET old == st.buf
        padded == IF pos > Len(old) THEN old \o Zeros(pos - Len(old)) ELSE old
        n == Max(Len(padded), pos + Len(data))
    IN  [buf |-> [i \in 1..n |->
                     IF i > pos /\ i <= pos + Len(data) THEN data[i - pos]
                     ELSE padded[i]],
         pos |-> pos + Len(data)]

\* ------------------------------------------------------------------- state
VARIABLES
    blob_len,            \* server: length of the blob
    wide,                \* server: the blob holds two-byte UTF-8 characters
    start_range, end_range, max_concurrency, encoding, validate_content,
    max_single_get_size, max_chunk_get_size,
    size, file_size,
    current_content, download_offset, raw_download_offset, read_offset,
    current_content_offset, text_mode, decoder, first_chunk,
    pc,                  \* position of the consumer call in progress
    call,                \* locals of the call in progress
    stream,              \* output_stream of read / sink of readinto
    dls,                 \* the scheduler downloaders created so far
    tasks,               \* process_chunk futures: in flight or finished
    iters,               \* the _AsyncChunkIterator objects the consumer holds
    result,              \* outcome of the last finished call
    requests,            \* log of the requests sent to the service
    delivered,           \* everything handed to the caller by read/readinto
    progress,            \* log of the progress_hook invocations
    raised,              \* a read or readinto call has raised a non-usage error
    ncalls, nfail,
    etag,                \* server: the current ETag (version) of the blob
    mac,                 \* the request options carry modified_access_conditions
    if_match,            \* modified_access_conditions.if_match, None when unset
    pages,               \* server: NoMap, or the non-empty offsets of a page blob
    encrypted,           \* an encryption key or resolver is configured
    non_empty_ranges     \* _non_empty_ranges: NoMap, or the page ranges fetched

confVars == <<blob_len, wide, start_range, end_range, max_concurrency, encoding,
              validate_content, max_single_get_size, max_chunk_get_size,
              etag, mac, pages, encrypted>>
offVars == <<current_content, download_offset, raw_download_offset, read_offset,
             current_content_offset>>
facadeVars == <<size, file_size, offVars, text_mode, decoder, first_chunk,
                if_match, non_empty_ranges>>
vars == <<confVars, facadeVars, pc, call, stream, dls, tasks, iters, result,
          requests, delivered, progress, raised, ncalls, nfail>>

\* --------------------------------------------------------------- the blob
\* the byte at offset i of the blob in its current version: every overwrite
\* changes every byte
Version == MaxBlob + 1
Byte(i) == IF pages # NoMap /\ i \notin pages THEN 0 ELSE i + 1 + etag * Version
\* what the service stores and sends: the ciphertext of an encrypted blob
Cipher == 1000
WireByte(i) == IF encrypted THEN Byte(i) + Cipher ELSE Byte(i)
\* bytes lo .. hi (absolute, inclusive) of the blob
BlobBytes(lo, hi) == [k \in 1..(hi - lo + 1) |-> Byte(lo + k - 1)]

download_start == IF start_range # None THEN start_range ELSE 0
\* the requested logical window
Window == BlobBytes(download_start, download_start + size - 1)

\* UTF-8 layout of a wide blob: offsets 1,4,7.. start a two-byte character
IsLead(b) == wide /\ b > 0 /\ (b - 1) % 3 = 1
CharOf(b) == IF IsLead(b) THEN 100 + b ELSE b
CharLen(c) == IF c > 100 THEN 2 ELSE 1

\* codecs incremental decoder: decode(data) of the bytes left pending plus
\* data; an incomplete trailing character stays pending
RECURSIVE DecodeChars(_)
DecodeChars(bs) ==
    IF bs = <<>> THEN <<>>
    ELSE IF IsLead(Head(bs))
         THEN IF Len(bs) = 1 THEN <<>>
              ELSE <<CharOf(Head(bs))>> \o DecodeChars(Tail(Tail(bs)))
         ELSE <<Head(bs)>> \o DecodeChars(Tail(bs))
\* what stays pending in the decoder after decode(bs)
RECURSIVE DecodePending(_)
DecodePending(bs) ==
    IF bs = <<>> THEN <<>>
    ELSE IF IsLead(Head(bs))
         THEN IF Len(bs) = 1 THEN bs ELSE DecodePending(Tail(Tail(bs)))
         ELSE DecodePending(Tail(bs))
\* bytes.decode(encoding) of a whole result: fails on a cut character
IsCont(b) == wide /\ b > 0 /\ (b - 1) % 3 = 2
ValidText(bs) ==
    /\ DecodePending(bs) = <<>>
    /\ bs # <<>> => ~IsCont(Head(bs))
\* the window of a text blob is valid UTF-8
ValidWindow(start, len) ==
    wide => /\ start = None
            /\ len % 3 # 2

\* ------------------------------------------------------------ the service
\* the If-Match precondition of a chunk request: the service answers 412
\* when one is sent and the blob has another ETag
Matches == if_match = None \/ if_match = etag
\* faulty variant of set_if_match: the ETag seen is never recorded
set_if_match_never(response_etag) == if_match
\* the precondition is refreshed to the ETag of the response, when the
\* request options carry modified_access_conditions
set_if_match(response_etag) == IF mac THEN response_etag ELSE if_match
\* body of a successful range GET [lo, hi] on the blob (hi is clipped)
RangeBody(lo, hi) ==
    [k \in 1..(Min(hi, blob_len - 1) - lo + 1) |-> WireByte(lo + k - 1)]
\* faulty variant of get_page_ranges: a failed request leaves a map behind
get_page_ranges_despite_failure(ok) ==
    IF pages # NoMap THEN pages ELSE non_empty_ranges
\* get_page_ranges after the first response: a failure is swallowed
get_page_ranges(ok) ==
    IF pages # NoMap /\ ok THEN pages ELSE non_empty_ranges

\* ------------------------------------------------------------- encryption
\* the cipher block, and the wire range of a logical range [lo, hi] with
\* the offsets of the logical bytes inside the decrypted response
CipherBlock == 16
process_range_and_offset(lo, hi) ==
    IF encrypted
    THEN [lo |-> lo - (lo % CipherBlock),
          hi |-> hi + (CipherBlock - 1 - (hi % CipherBlock)),
          start_offset |-> lo % CipherBlock,
          end_offset |-> CipherBlock - 1 - (hi % CipherBlock)]
    ELSE [lo |-> lo, hi |-> hi, start_offset |-> 0, end_offset |-> 0]
\* decrypt_blob: the plaintext of content without its first start_offset
\* and its last end_offset bytes
decrypt_blob(content, start_offset, end_offset) ==
    [k \in 1..(Len(content) - start_offset - end_offset) |->
        content[start_offset + k] - Cipher]
\* process_content of a response that decrypts
process_content(content, start_offset, end_offset) ==
    IF encrypted THEN decrypt_blob(content, start_offset, end_offset)
    ELSE content
Request(kind, lo, hi, by, run) ==
    [kind |-> kind, lo |-> lo, hi |-> hi, by |-> by, run |-> run]
Outcome(op, args, status, data, n) ==
    [op |-> op, args |-> args, status |-> status, data |-> data, n |-> n]

\* --------------------------------------------------------------- _setup
\* faulty variant of first_get_size: validate_content is ignored
first_get_size_single == max_single_get_size
first_get_size ==
    IF ~validate_content THEN max_single_get_size ELSE max_chunk_get_size
initial_request_start == IF start_range # None THEN start_range ELSE 0
initial_request_end ==
    IF end_range # None /\ end_range - initial_request_start < first_get_size
    THEN end_range
    ELSE initial_request_start + first_get_size - 1
\* faulty variant of InitialSize: the range is not clipped to the blob
InitialSizeUnclipped(fs) ==
    IF end_range # None THEN end_range - start_range + 1
    ELSE IF start_range # None THEN fs - start_range
    ELSE fs
\* self.size after a successful initial request
InitialSize(fs) ==
    IF end_range # None THEN Min(fs - start_range, end_range - start_range + 1)
    ELSE IF start_range # None THEN fs - start_range
    ELSE fs

\* faulty variant of download_complete: the comparison is strict
download_complete_strict == raw_download_offset > size
\* _download_complete (no encryption metadata: the raw offset decides)
download_complete == raw_download_offset >= size

Init ==
    /\ etag = 0 /\ mac = TRUE /\ if_match = None
    /\ pages = NoMap /\ encrypted = FALSE /\ non_empty_ranges = NoMap
    /\ blob_len \in 0..MaxBlob
    /\ max_chunk_get_size \in 1..MaxChunk
    /\ max_single_get_size \in 1..MaxSingle
    /\ max_concurrency \in 1..MaxConc
    /\ validate_content \in BOOLEAN
    /\ start_range \in {None} \cup 0..MaxStart
    /\ end_range \in {None, MaxEnd}
    /\ end_range # None => start_range # None /\ start_range <= end_range
    /\ validate_content => max_single_get_size = MaxSingle
    /\ encoding \in BOOLEAN
    /\ wide \in BOOLEAN
    /\ wide => encoding /\ ValidWindow(start_range, blob_len)
    /\ size = None /\ file_size = 0
    /\ current_content = <<>>
    /\ download_offset = 0 /\ raw_download_offset = 0
    /\ read_offset = 0 /\ current_content_offset = 0
    /\ text_mode = "unset" /\ decoder = <<>> /\ first_chunk = TRUE
    /\ pc = "new"
    /\ call = [op |-> "none"]
    /\ stream = [buf |-> <<>>, pos |-> 0, run |-> 0]
    /\ dls = <<>> /\ tasks = {} /\ iters = <<>>
    /\ result = Outcome("none", <<>>, "ok", <<>>, 0)
    /\ requests = <<>> /\ delivered = <<>> /\ progress = <<>> /\ raised = FALSE
    /\ ncalls = 0 /\ nfail = 0

\* self._initial_range, self._initial_offset
initial_range ==
    process_range_and_offset(initial_request_start, initial_request_end)
\* the requests of _initial_request: the range GET and, for a page blob,
\* get_page_ranges
InitialRequests ==
    <<Request("range", initial_range.lo, initial_range.hi, "init", 0)>> \o
    (IF pages # NoMap THEN <<Request("pages", 0, 0, "init", 0)>> ELSE <<>>)

\* _setup with _initial_request: the first range GET succeeds
SetupOk ==
    /\ pc = "new"
    /\ initial_range.lo < blob_len
    /\ LET body == RangeBody(initial_range.lo, initial_range.hi)
           content == process_content(body, initial_range.start_offset,
                                      initial_range.end_offset)
       IN  /\ file_size' = blob_len
           /\ size' = InitialSize(blob_len)
           /\ current_content' = IF InitialSize(blob_len) = 0 THEN <<>> ELSE content
           /\ download_offset' = download_offset +
                  (IF InitialSize(blob_len) = 0 THEN 0 ELSE Len(content))
           /\ raw_download_offset' = raw_download_offset + Len(body)
           /\ if_match' = IF raw_download_offset + Len(body) >= InitialSize(blob_len)
                           THEN if_match ELSE set_if_match(etag)
    /\ requests' = requests \o InitialRequests
    /\ \E ok \in BOOLEAN :
         /\ ~ok => pages # NoMap /\ nfail < MaxFail
         /\ non_empty_ranges' = get_page_ranges(ok)
         /\ nfail' = IF ok THEN nfail ELSE nfail + 1
    /\ pc' = "idle"
    /\ result' = Outcome("setup", <<>>, "ok", <<>>, 0)
    /\ UNCHANGED <<confVars, read_offset, current_content_offset, text_mode,
                   decoder, first_chunk, call, stream, dls, tasks, iters,
                   delivered, raised, progress, ncalls>>

\* faulty variant of empty_blob_fallback: the plain GET is tried for any range
empty_blob_fallback_any_range == TRUE
\* a 416 is caught only when the caller asked for no start range
empty_blob_fallback == start_range = None
\* the first range GET is answered 416 (the range starts at or after the end
\* of the blob): without a start range the properties are fetched by a plain
\* GET and the size is 0, otherwise the error is raised
Setup416 ==
    /\ pc = "new"
    /\ initial_range.lo >= blob_len
    /\ \E ok \in BOOLEAN :
         /\ ~ok => empty_blob_fallback /\ nfail < MaxFail
         /\ IF empty_blob_fallback
            THEN IF ok
                 THEN /\ size' = 0 /\ file_size' = 0
                      /\ pc' = "idle"
                      /\ result' = Outcome("setup", <<>>, "ok", <<>>, 0)
                      /\ requests' = requests \o
                            <<Request("range", initial_range.lo, initial_range.hi, "init", 0),
                              Request("full", 0, 0, "init", 0)>> \o
                            (IF pages # NoMap THEN <<Request("pages", 0, 0, "init", 0)>>
                             ELSE <<>>)
                      /\ \E pok \in BOOLEAN :
                           /\ ~pok => pages # NoMap /\ nfail < MaxFail
                           /\ non_empty_ranges' = get_page_ranges(pok)
                           /\ nfail' = IF pok THEN nfail ELSE nfail + 1
                 ELSE /\ pc' = "failed"
                      /\ result' = Outcome("setup", <<>>, "http", <<>>, 0)
                      /\ requests' = requests \o
                            <<Request("range", initial_range.lo, initial_range.hi, "init", 0),
                              Request("full", 0, 0, "init", 0)>>
                      /\ nfail' = nfail + 1
                      /\ UNCHANGED <<size, file_size, non_empty_ranges>>
            ELSE /\ requests' = Append(requests,
                       Request("range", initial_range.lo, initial_range.hi, "init", 0))
                 /\ pc' = "failed"
                 /\ result' = Outcome("setup", <<>>, "http", <<>>, 416)
                 /\ UNCHANGED <<size, file_size, nfail, non_empty_ranges>>
    /\ UNCHANGED <<confVars, offVars, text_mode, decoder, first_chunk, call,
                   stream, dls, tasks, iters, delivered, raised, progress, ncalls,
                   if_match>>

\* the first range GET fails with another transport error: it is raised
SetupFail ==
    /\ pc = "new"
    /\ nfail < MaxFail
    /\ requests' = Append(requests,
           Request("range", initial_range.lo, initial_range.hi, "init", 0))
    /\ pc' = "failed"
    /\ result' = Outcome("setup", <<>>, "http", <<>>, 0)
    /\ nfail' = nfail + 1
    /\ UNCHANGED <<confVars, facadeVars, call, stream, dls, tasks, iters,
                   delivered, raised, progress, ncalls>>

\* ------------------------------------------------------ _ChunkDownloader
\* faulty variant of calculate_range: the last chunk is not clipped
calculate_range_unclipped(chunk_start, end_index) ==
    chunk_start + max_chunk_get_size
\* _calculate_range: the end (exclusive) of the chunk starting at chunk_start
calculate_range(chunk_start, end_index) ==
    IF chunk_start + max_chunk_get_size > end_index THEN end_index
    ELSE chunk_start + max_chunk_get_size
\* get_chunk_offsets: the generator yields index while index < end_index
HasNext(index, end_index) == index < end_index
\* islice(get_chunk_offsets(), 0, n) started at index: the offsets handed out
Islice(index, end_index, n) ==
    {d \in index..(end_index - 1) :
        /\ (d - index) % max_chunk_get_size = 0
        /\ (d - index) \div max_chunk_get_size < n}
\* download_range, offset of the chunk starting at d
chunk_range(d, end_index) ==
    process_range_and_offset(d, calculate_range(d, end_index) - 1)
\* faulty variant of do_optimize: a range is skipped when it starts in a hole
do_optimize_by_start(given_range_start, given_range_end) ==
    /\ non_empty_ranges # NoMap
    /\ given_range_start \notin non_empty_ranges
\* _do_optimize: the wire range lies wholly outside every non-empty range
do_optimize(given_range_start, given_range_end) ==
    /\ non_empty_ranges # NoMap
    /\ \A i \in given_range_start..given_range_end : i \notin non_empty_ranges
\* the chunk starting at d is created locally, without a request
Optimized(d, end_index) ==
    do_optimize(chunk_range(d, end_index).lo, chunk_range(d, end_index).hi)
\* the range GET of the chunk starting at d
ChunkRequest(d, end_index, by, run) ==
    Request("range", chunk_range(d, end_index).lo, chunk_range(d, end_index).hi,
            by, run)
\* the log of requests after the chunk starting at d was asked for
LogChunk(log, d, end_index, by, run) ==
    IF Optimized(d, end_index) THEN log
    ELSE Append(log, ChunkRequest(d, end_index, by, run))
\* _download_chunk: chunk_data and content_length of a chunk that succeeds
download_chunk(d, end_index) ==
    LET r == chunk_range(d, end_index)
    IN  IF Optimized(d, end_index) THEN Zeros(r.hi - r.lo + 1)
        ELSE process_content(RangeBody(r.lo, r.hi), r.start_offset, r.end_offset)
\* faulty variant of content_length: the nominal chunk size
content_length_nominal(d, end_index) == max_chunk_get_size
content_length(d, end_index) ==
    LET r == chunk_range(d, end_index)
    IN  IF Optimized(d, end_index) THEN r.hi - r.lo + 1
        ELSE Len(RangeBody(r.lo, r.hi))
\* the range GETs of the dispatched offsets ds, in dispatch (offset) order
RECURSIVE ChunkRequests(_, _, _, _)
ChunkRequests(ds, end_index, by, run) ==
    IF ds = {} THEN <<>>
    ELSE LET d == CHOOSE x \in ds : \A y \in ds : x <= y
         IN  LogChunk(<<>>, d, end_index, by, run) \o
             ChunkRequests(ds \ {d}, end_index, by, run)
\* faulty variant of FirstWave: one future too many in the first wave
FirstWaveOneMore(index, end_index) == Islice(index, end_index, max_concurrency + 1)
\* the first wave of the scheduler: islice(offsets, 0, max_concurrency)
FirstWave(index, end_index) == Islice(index, end_index, max_concurrency)
\* faulty variant of Dispatch: the refill starts again at the offset before
DispatchAgain(index, end_index, n) ==
    Islice(Max(index - max_chunk_get_size, 0), end_index, n)
\* faulty variant of Dispatch: the loop never refills
DispatchNone(index, end_index, n) == {}
\* the scheduler loop: one next(offsets) per finished future, until StopIteration
Dispatch(index, end_index, n) == Islice(index, end_index, n)
\* faulty variant of read_data_start: resumes at what was read, not at what
\* was downloaded
read_data_start_at_read_offset == download_start + read_offset
\* where read() starts the downloader for the rest of the file
read_data_start == download_start + download_offset
\* faulty variant of readinto_data_start: the flushed bytes are fetched again
readinto_data_start_before_flush(count) == download_start + read_offset
\* where readinto() starts it, count bytes of the buffer having been flushed
readinto_data_start(count) == download_start + read_offset + count
Task(run, d) == [run |-> run, d |-> d, st |-> "flight"]
Downloader(op, start, end, stream_start, total) ==
    [op |-> op, start_index |-> start, end_index |-> end,
     stream_start |-> stream_start, parallel |-> max_concurrency > 1,
     progress_total |-> total, status |-> "running"]

\* ------------------------------------------------------------------ read
\* the value read() returns: in bytes mode with an encoding the bytes are
\* decoded as a whole, which raises on a cut character
FinishRead(args, data, mode) ==
    IF mode # "text" /\ encoding /\ ~ValidText(data)
    THEN /\ result' = Outcome("read", args, "decode", <<>>, 0)
         /\ delivered' = delivered
         /\ raised' = TRUE
    ELSE /\ result' = Outcome("read", args, "ok", data, Len(data))
         /\ delivered' = delivered \o data
         /\ raised' = raised

\* faulty variants of ReadUsageError: without the two mode checks, and
\* without the check that size and chars are not both given
ReadUsageErrorNoMode(sz, ch) ==
    \/ sz > -1 /\ ch # None
    \/ ~encoding /\ ch # None
ReadUsageErrorNoBoth(sz, ch) ==
    \/ ~encoding /\ ch # None
    \/ text_mode = "text" /\ sz > -1
    \/ text_mode = "bytes" /\ ch # None
ReadUsageError(sz, ch) ==
    \/ sz > -1 /\ ch # None
    \/ ~encoding /\ ch # None
    \/ text_mode = "text" /\ sz > -1
    \/ text_mode = "bytes" /\ ch # None

\* faulty variant of ReadEarlyReturn: a zero amount is not special
ReadEarlyReturnNoZero(sz, ch) ==
    download_complete /\ current_content_offset >= Len(current_content)
\* Empty blob or already read to the end
ReadEarlyReturn(sz, ch) ==
    \/ sz = 0
    \/ ch = 0
    \/ download_complete /\ current_content_offset >= Len(current_content)

\* the mode a read that gets past the early return leaves the stream in
ReadMode(ch) ==
    IF text_mode # "text" /\ ch # None THEN "text"
    ELSE IF text_mode = "unset" THEN "bytes"
    ELSE text_mode

\* faulty variant of ReadAmount: chars is ignored
ReadAmountNoChars(sz, ch, mode) == IF sz > 0 THEN sz ELSE maxsize
\* the amount to read: chars if chars else sys.maxsize, size if size > 0
ReadAmount(sz, ch, mode) ==
    IF mode = "text" THEN (IF ch # None /\ ch # 0 THEN ch ELSE maxsize)
    ELSE (IF sz > 0 THEN sz ELSE maxsize)

\* read(size, chars=...) up to its first wait on the network
ReadCall(sz, ch) ==
    /\ pc = "idle" /\ ncalls + nfail < MaxCalls
    /\ UNCHANGED <<confVars, size, file_size, download_offset, raw_download_offset,
                   nfail, if_match, non_empty_ranges>>
    /\ IF ReadUsageError(sz, ch)
       THEN /\ result' = Outcome("read", <<sz, ch>>, "usage", <<>>, 0)
            /\ UNCHANGED <<current_content, read_offset, current_content_offset,
                           text_mode, decoder, first_chunk, pc, call, stream, dls,
                           tasks, requests, delivered, raised, progress, ncalls, iters>>
       ELSE IF ReadEarlyReturn(sz, ch)
       THEN /\ result' = Outcome("read", <<sz, ch>>, "ok", <<>>, 0)
            /\ UNCHANGED <<current_content, read_offset, current_content_offset,
                           text_mode, decoder, first_chunk, pc, call, stream, dls,
                           tasks, requests, delivered, raised, progress, ncalls, iters>>
       ELSE
         LET toText == text_mode # "text" /\ ch # None
             mode == ReadMode(ch)
             content == IF toText THEN DecodeChars(current_content)
                        ELSE current_content
             amount == ReadAmount(sz, ch, mode)
             readall == amount = maxsize
             \* Start by reading from current_content
             start == current_content_offset
             length == Min(Len(content) - current_content_offset, amount)
             piece == PySlice(content, start, start + length)
             read == Len(piece)
             remaining == amount - read
             \* the downloader for the rest of the file
             dstart == read_data_start
             dend == download_start + size
             run == Len(dls) + 1
         IN  /\ ncalls' = ncalls + 1
             /\ iters' = <<>>
             /\ text_mode' = mode
             /\ decoder' = IF toText THEN DecodePending(current_content) ELSE decoder
             /\ current_content' = content
             /\ current_content_offset' = current_content_offset + read
             /\ read_offset' = read_offset + read
             /\ progress' = IF current_content_offset + read = Len(content)
                            THEN Append(progress, <<download_offset, size>>)
                            ELSE progress
             /\ IF remaining > 0 /\ ~download_complete
                THEN /\ first_chunk' = FALSE
                     /\ IF readall /\ mode # "text"
                        THEN \* the concurrent scheduler launches the first wave
                             /\ stream' = [buf |-> piece, pos |-> read, run |-> run]
                             /\ dls' = Append(dls, Downloader("read", dstart, dend,
                                    IF max_concurrency > 1 THEN read ELSE None,
                                    read_offset + read))
                             /\ tasks' = tasks \cup
                                    {Task(run, d) : d \in FirstWave(dstart, dend)}
                             /\ requests' = requests \o
                                    ChunkRequests(FirstWave(dstart, dend), dend, "read", run)
                             /\ call' = [op |-> "read", args |-> <<sz, ch>>, run |-> run,
                                         next |-> dstart +
                                             Cardinality(FirstWave(dstart, dend)) * max_chunk_get_size,
                                         end_index |-> dend, chunk |-> None,
                                         remaining |-> remaining, ret |-> 0]
                             /\ pc' = IF HasNext(dstart, dend) THEN "sched" ELSE "drain"
                             /\ UNCHANGED <<result, delivered, raised>>
                        ELSE \* one chunk at a time
                             IF HasNext(dstart, dend)
                             THEN /\ stream' = [buf |-> piece, pos |-> read, run |-> 0]
                                  /\ requests' = LogChunk(requests, dstart, dend, "read", 0)
                                  /\ call' = [op |-> "read", args |-> <<sz, ch>>, run |-> 0,
                                              next |-> dstart + max_chunk_get_size,
                                              end_index |-> dend, chunk |-> dstart,
                                              remaining |-> remaining, ret |-> 0]
                                  /\ pc' = "read_seq"
                                  /\ UNCHANGED <<dls, tasks, result, delivered, raised>>
                             ELSE /\ FinishRead(<<sz, ch>>, piece, mode)
                                  /\ UNCHANGED <<pc, call, stream, dls, tasks, requests>>
                ELSE /\ FinishRead(<<sz, ch>>, piece, mode)
                     /\ UNCHANGED <<first_chunk, pc, call, stream, dls, tasks, requests>>

\* faulty variant of loop_continues: the loop runs to the last chunk
loop_continues_to_end(next, end_index, remaining) == HasNext(next, end_index)
\* the condition of the sequential loop of read: another offset, and data
\* still asked for
loop_continues(next, end_index, remaining) ==
    HasNext(next, end_index) /\ remaining > 0
\* one turn of the sequential loop of read: the awaited chunk arrives
ReadSeqStep ==
    /\ pc = "read_seq"
    /\ Optimized(call.chunk, call.end_index) \/ Matches
    /\ if_match' = IF Optimized(call.chunk, call.end_index) THEN if_match
                    ELSE set_if_match(etag)
    /\ LET chunk_data == download_chunk(call.chunk, call.end_index)
           bytes == decoder \o chunk_data
           content == IF text_mode = "text" THEN DecodeChars(bytes) ELSE chunk_data
           piece == IF call.remaining < Len(content)
                    THEN PySlice(content, 0, call.remaining) ELSE content
           read == Len(piece)
           remaining == call.remaining - read
           out == stream.buf \o piece
       IN  /\ download_offset' = download_offset + Len(chunk_data)
           /\ raw_download_offset' = raw_download_offset +
                  content_length(call.chunk, call.end_index)
           /\ current_content' = content
           /\ decoder' = IF text_mode = "text" THEN DecodePending(bytes) ELSE decoder
           /\ current_content_offset' = read
           /\ read_offset' = read_offset + read
           /\ progress' = IF read = Len(content)
                          THEN Append(progress, <<download_offset + Len(chunk_data), size>>)
                          ELSE progress
           /\ IF loop_continues(call.next, call.end_index, remaining)
              THEN /\ requests' = LogChunk(requests, call.next, call.end_index,
                                              "read", 0)
                   /\ call' = [call EXCEPT !.chunk = call.next,
                                           !.next = call.next + max_chunk_get_size,
                                           !.remaining = remaining]
                   /\ stream' = [stream EXCEPT !.buf = out, !.pos = Len(out)]
                   /\ UNCHANGED <<pc, result, delivered, raised>>
              ELSE /\ FinishRead(call.args, out, text_mode)
                   /\ pc' = "idle"
                   /\ stream' = [stream EXCEPT !.buf = out, !.pos = Len(out)]
                   /\ UNCHANGED <<call, requests>>
    /\ UNCHANGED <<confVars, size, file_size, text_mode, first_chunk, dls, tasks,
                   iters, ncalls, nfail, non_empty_ranges>>

\* the awaited chunk of the sequential loop fails: read raises
ReadSeqFail ==
    /\ pc = "read_seq"
    /\ ~Optimized(call.chunk, call.end_index)
    /\ nfail < MaxFail
    /\ nfail' = nfail + 1
    /\ pc' = "idle"
    /\ result' = Outcome("read", call.args, "http", <<>>, 0)
    /\ raised' = TRUE
    /\ UNCHANGED <<confVars, facadeVars, call, stream, dls, tasks, iters,
                   requests, delivered, progress, ncalls>>

\* faulty variant of status_code: the wrapped error loses its response
status_code_lost(st) == 0
\* ------------------------------------------- the concurrent chunk scheduler
\* the HttpResponseError a failed future raises from task.result(): the one
\* of a failed decryption carries the successful response of the fetch, the
\* one of a failed fetch the error response (its code is not modelled)
partial_content == 206
status_code(st) == IF st = "decrypt" THEN partial_content ELSE 0
\* faulty variant of complete_read: read_offset is left where it was
complete_read_keeps_read_offset ==
    [download_offset |-> size, raw_download_offset |-> size,
     read_offset |-> read_offset, current_content_offset |-> Len(current_content)]
\* faulty variant of complete_read: download_offset is left where it was
complete_read_keeps_download_offset ==
    [download_offset |-> download_offset, raw_download_offset |-> size,
     read_offset |-> size, current_content_offset |-> Len(current_content)]
\* faulty variant of complete_read: the stream is rewound
complete_read_rewinds ==
    [download_offset |-> size, raw_download_offset |-> size,
     read_offset |-> 0, current_content_offset |-> 0]
\* _complete_read, then the return of the call that ran the scheduler
complete_read ==
    [download_offset |-> size, raw_download_offset |-> size,
     read_offset |-> size, current_content_offset |-> Len(current_content)]
FinishScheduler ==
    /\ download_offset' = complete_read.download_offset
    /\ raw_download_offset' = complete_read.raw_download_offset
    /\ read_offset' = complete_read.read_offset
    /\ current_content_offset' = complete_read.current_content_offset
    /\ dls' = [dls EXCEPT ![call.run].status = "ok"]
    /\ pc' = "idle"
    /\ IF call.op = "read"
       THEN FinishRead(call.args, stream.buf, text_mode)
       ELSE /\ result' = Outcome("readinto", call.args, "ok", <<>>, call.ret)
            /\ delivered' = delivered \o stream.buf
            /\ raised' = raised

\* faulty variant of write_to_stream: always appends, in completion order
write_to_stream_appending(st, dl, chunk_start, chunk_data) ==
    StreamWrite(st, st.pos, chunk_data)
\* _write_to_stream: seek to the chunk's own position when parallel
write_to_stream(st, dl, chunk_start, chunk_data) ==
    IF dl.parallel
    THEN StreamWrite(st, dl.stream_start + (chunk_start - dl.start_index), chunk_data)
    ELSE StreamWrite(st, st.pos, chunk_data)

\* process_chunk of a dispatched future completes: the chunk is written to
\* the stream (at its own position when parallel) and progress is reported
TaskDone(t) ==
    /\ t \in tasks /\ t.st = "flight"
    /\ Optimized(t.d, dls[t.run].end_index) \/ Matches
    /\ if_match' = IF Optimized(t.d, dls[t.run].end_index) THEN if_match
                    ELSE set_if_match(etag)
    /\ LET dl == dls[t.run]
           chunk_data == download_chunk(t.d, dl.end_index)
           length == calculate_range(t.d, dl.end_index) - t.d
           awaited == pc \in {"sched", "drain"} /\ call.run = t.run
       IN  /\ stream' =
                 IF stream.run # t.run THEN stream
                 ELSE [run |-> stream.run] @@
                      write_to_stream(stream, dl, t.d, chunk_data)
           /\ dls' = [dls EXCEPT ![t.run].progress_total = @ + length]
           /\ progress' = Append(progress, <<dl.progress_total + length, size>>)
           /\ tasks' = IF awaited THEN (tasks \ {t}) \cup {[t EXCEPT !.st = "ok"]}
                       ELSE tasks \ {t}
    /\ UNCHANGED <<confVars, size, file_size, offVars, text_mode, decoder,
                   first_chunk, pc, call, iters, result, requests,
                   delivered, raised, ncalls, nfail, non_empty_ranges>>

\* the range GET of a dispatched future fails
TaskFail(t) ==
    /\ t \in tasks /\ t.st = "flight"
    /\ ~Optimized(t.d, dls[t.run].end_index)
    /\ nfail < MaxFail
    /\ nfail' = nfail + 1
    /\ LET awaited == pc \in {"sched", "drain"} /\ call.run = t.run
       IN  tasks' = IF awaited THEN (tasks \ {t}) \cup {[t EXCEPT !.st = "fail"]}
                    ELSE tasks \ {t}
    /\ UNCHANGED <<confVars, facadeVars, pc, call, stream, dls, iters, result,
                   requests, delivered, raised, progress, ncalls>>

\* asyncio.wait(FIRST_COMPLETED) returns in the scheduler loop: the results
\* are checked and one new chunk is dispatched per finished future
SchedWake ==
    /\ pc = "sched"
    /\ LET done == {t \in tasks : t.run = call.run /\ t.st # "flight"}
           new == Dispatch(call.next, call.end_index, Cardinality(done))
           exhausted == Cardinality(new) < Cardinality(done)
           running == {t \in tasks \ done : t.run = call.run}
       IN  /\ done # {}
           /\ IF \E t \in done : t.st # "ok"
              THEN /\ tasks' = tasks \ done
                   /\ pc' = "idle"
                   /\ \E t \in done :
                        /\ t.st # "ok"
                        /\ result' = Outcome(call.op, call.args, "http", <<>>,
                                              status_code(t.st))
                   /\ raised' = TRUE
                   /\ dls' = [dls EXCEPT ![call.run].status = "failed"]
                   /\ UNCHANGED <<offVars, call, requests, delivered>>
              ELSE /\ tasks' = (tasks \ done) \cup {Task(call.run, d) : d \in new}
                   /\ requests' = requests \o
                          ChunkRequests(new, call.end_index, call.op, call.run)
                   /\ call' = [call EXCEPT !.next = @ + Cardinality(new) * max_chunk_get_size]
                   /\ IF ~exhausted
                      THEN UNCHANGED <<offVars, pc, dls, result, delivered, raised>>
                      ELSE IF running # {} \/ new # {}
                      THEN /\ pc' = "drain"
                           /\ UNCHANGED <<offVars, dls, result, delivered, raised>>
                      ELSE /\ FinishScheduler
                           /\ UNCHANGED current_content
    /\ UNCHANGED <<confVars, size, file_size, text_mode, decoder, first_chunk,
                   stream, iters, progress, ncalls, nfail, if_match,
                   non_empty_ranges>>

\* asyncio.wait of the remaining futures returns: all of them have finished
SchedDrain ==
    /\ pc = "drain"
    /\ LET mine == {t \in tasks : t.run = call.run}
       IN  /\ \A t \in mine : t.st # "flight"
           /\ tasks' = tasks \ mine
           /\ IF \E t \in mine : t.st # "ok"
              THEN /\ pc' = "idle"
                   /\ \E t \in mine :
                        /\ t.st # "ok"
                        /\ result' = Outcome(call.op, call.args, "http", <<>>,
                                              status_code(t.st))
                   /\ raised' = TRUE
                   /\ dls' = [dls EXCEPT ![call.run].status = "failed"]
                   /\ UNCHANGED <<offVars, delivered>>
              ELSE /\ FinishScheduler
                   /\ UNCHANGED current_content
    /\ UNCHANGED <<confVars, size, file_size, text_mode, decoder, first_chunk,
                   call, stream, iters, requests, progress, ncalls, nfail, if_match,
                   non_empty_ranges>>

\* -------------------------------------------------------------- readinto
\* faulty variant of ReadIntoUsageError: the sink is never asked if it seeks
ReadIntoUsageErrorNoSeekable(seekable) == text_mode = "text"
\* faulty variant of ReadIntoUsageError: the mode is checked too late
ReadIntoUsageErrorNoText(seekable) == max_concurrency > 1 /\ ~seekable
ReadIntoUsageError(seekable) ==
    \/ text_mode = "text"
    \/ max_concurrency > 1 /\ ~seekable

\* readinto(stream) up to its first wait on the network; the sink is a
\* fresh stream at position 0
ReadIntoCall(seekable) ==
    /\ pc = "idle" /\ ncalls + nfail < MaxCalls
    /\ UNCHANGED <<confVars, size, file_size, current_content, download_offset,
                   raw_download_offset, text_mode, decoder, first_chunk, nfail,
                   if_match, non_empty_ranges>>
    /\ IF ReadIntoUsageError(seekable)
       THEN /\ result' = Outcome("readinto", <<seekable>>, "usage", <<>>, 0)
            /\ UNCHANGED <<read_offset, current_content_offset, pc, call, stream,
                           dls, tasks, requests, delivered, raised, progress, ncalls, iters>>
       ELSE IF size - read_offset <= 0
       THEN /\ result' = Outcome("readinto", <<seekable>>, "ok", <<>>, 0)
            /\ UNCHANGED <<read_offset, current_content_offset, pc, call, stream,
                           dls, tasks, requests, delivered, raised, progress, ncalls, iters>>
       ELSE
         LET remaining_size == size - read_offset
             current_remaining == Len(current_content) - current_content_offset
             start == current_content_offset
             piece == PySlice(current_content, start, start + current_remaining)
             count == Len(piece)
             data_start == readinto_data_start(count)
             data_end == download_start + size
             run == Len(dls) + 1
         IN  /\ ncalls' = ncalls + 1
             /\ iters' = <<>>
             /\ current_content_offset' = current_content_offset + count
             /\ read_offset' = read_offset + count
             /\ progress' = Append(progress, <<read_offset + count, size>>)
             /\ IF download_complete
                THEN /\ stream' = [buf |-> piece, pos |-> count, run |-> 0]
                     /\ result' = Outcome("readinto", <<seekable>>, "ok", <<>>, remaining_size)
                     /\ delivered' = delivered \o piece
                     /\ raised' = raised
                     /\ UNCHANGED <<pc, call, dls, tasks, requests>>
                ELSE /\ stream' = [buf |-> piece, pos |-> count, run |-> run]
                     /\ dls' = Append(dls, Downloader("readinto", data_start, data_end,
                            IF max_concurrency > 1 THEN count ELSE None,
                            read_offset + count))
                     /\ tasks' = tasks \cup
                            {Task(run, d) : d \in FirstWave(data_start, data_end)}
                     /\ requests' = requests \o
                            ChunkRequests(FirstWave(data_start, data_end), data_end,
                                          "readinto", run)
                     /\ call' = [op |-> "readinto", args |-> <<seekable>>, run |-> run,
                                 next |-> data_start +
                                     Cardinality(FirstWave(data_start, data_end)) * max_chunk_get_size,
                                 end_index |-> data_end, chunk |-> None,
                                 remaining |-> 0, ret |-> remaining_size]
                     /\ pc' = IF HasNext(data_start, data_end) THEN "sched" ELSE "drain"
                     /\ UNCHANGED <<result, delivered, raised>>

\* ---------------------------------------------------------------- chunks
\* faulty variant of new_iterator: the iterators share their state
new_iterator_shared(its, it) == [j \in 1..(Len(its) + 1) |-> it]
\* the iterators the consumer holds after chunks() returned it
new_iterator(its, it) == Append(its, it)
\* chunks(): a new _AsyncChunkIterator, the consumer holding fewer than limit
Chunks(limit) ==
    /\ pc = "idle" /\ ncalls + nfail < MaxCalls
    /\ text_mode # "text" => Len(iters) < limit
    /\ IF text_mode = "text"
       THEN /\ result' = Outcome("chunks", <<>>, "usage", <<>>, 0)
            /\ UNCHANGED <<iters, ncalls>>
       ELSE /\ result' = Outcome("chunks", <<>>, "ok", <<>>, Len(iters) + 1)
            /\ ncalls' = ncalls + 1
            /\ iters' = new_iterator(iters,
                 [size |-> size,
                  content |-> IF first_chunk THEN current_content ELSE <<>>,
                  has_dl |-> ~first_chunk \/ ~download_complete,
                  start_index |-> IF first_chunk
                                  THEN download_start + Len(current_content)
                                  ELSE download_start,
                  end_index |-> download_start + size,
                  next |-> None,
                  complete |-> size = 0,
                  fetched |-> <<>>,
                  out |-> <<>>])
    /\ UNCHANGED <<confVars, facadeVars, pc, call, stream, dls, tasks, requests,
                   delivered, raised, progress, nfail>>
ChunksCall == Chunks(MaxIters)

\* _get_chunk_data
get_chunk_data(content) == PySlice(content, 0, max_chunk_get_size)
rest_chunk_data(content) == PySlice(content, max_chunk_get_size, Len(content))

\* __anext__ of iterator i
IterNext(i) ==
    /\ pc = "idle" /\ i \in 1..Len(iters)
    /\ LET it == iters[i]
           index == IF it.next = None THEN it.start_index ELSE it.next
           Yield(chunk, rest, nxt, complete) ==
               /\ iters' = [iters EXCEPT ![i] =
                     [it EXCEPT !.content = rest, !.next = nxt,
                                !.complete = complete, !.out = Append(@, chunk)]]
               /\ result' = Outcome("anext", <<>>, "ok", chunk, i)
               /\ UNCHANGED <<nfail, if_match>>
           Stop ==
               /\ iters' = [iters EXCEPT ![i].complete = TRUE]
               /\ result' = Outcome("anext", <<>>, "stop", <<>>, i)
               /\ UNCHANGED <<nfail, if_match>>
       IN  IF it.complete THEN Stop
           ELSE IF ~it.has_dl
           THEN IF Len(it.content) > max_chunk_get_size
                THEN Yield(get_chunk_data(it.content), rest_chunk_data(it.content),
                           it.next, FALSE)
                ELSE Yield(it.content, it.content, it.next, TRUE)
           ELSE IF Len(it.content) >= max_chunk_get_size
           THEN Yield(get_chunk_data(it.content), rest_chunk_data(it.content),
                      index, FALSE)
           ELSE IF HasNext(index, it.end_index)
           THEN \E ok \in BOOLEAN :
                  /\ ~ok => nfail < MaxFail /\ ~Optimized(index, it.end_index)
                  /\ ok => Optimized(index, it.end_index) \/ Matches
                  /\ IF ok
                     THEN LET content == it.content \o download_chunk(index, it.end_index)
                          IN  /\ if_match' = IF Optimized(index, it.end_index)
                                              THEN if_match ELSE set_if_match(etag)
                              /\ iters' = [iters EXCEPT ![i] =
                                    [it EXCEPT !.content = rest_chunk_data(content),
                                               !.next = index + max_chunk_get_size,
                                               !.fetched = LogChunk(@, index,
                                                   it.end_index, "chunks", 0),
                                               !.out = Append(@, get_chunk_data(content))]]
                              /\ result' = Outcome("anext", <<>>, "ok", get_chunk_data(content), i)
                              /\ nfail' = nfail
                     ELSE /\ iters' = [iters EXCEPT ![i] =
                                    [it EXCEPT !.next = index + max_chunk_get_size,
                                               !.fetched = Append(@,
                                                   ChunkRequest(index, it.end_index, "chunks", 0))]]
                          /\ result' = Outcome("anext", <<>>, "http", <<>>, i)
                          /\ nfail' = nfail + 1
                          /\ if_match' = if_match
           ELSE IF it.content # <<>>
           THEN Yield(it.content, it.content, index, TRUE)
           ELSE Stop
    /\ UNCHANGED <<confVars, size, file_size, offVars, text_mode, decoder,
                   first_chunk, pc, call, stream, dls, tasks, requests,
                   delivered, raised, progress, ncalls, non_empty_ranges>>

ReadArgs ==
    {<<sz, None>> : sz \in -1..MaxAmount} \cup
    {<<-1, ch>> : ch \in -1..MaxAmount} \cup {<<1, 1>>}

Next ==
    \/ SetupOk \/ Setup416 \/ SetupFail
    \/ \E a \in ReadArgs : ReadCall(a[1], a[2])
    \/ ReadSeqStep \/ ReadSeqFail
    \/ \E t \in tasks : TaskDone(t)
    \/ \E t \in tasks : TaskFail(t)
    \/ SchedWake \/ SchedDrain
    \/ \E seekable \in BOOLEAN : ReadIntoCall(seekable)
    \/ ChunksCall
    \/ \E i \in 1..Len(iters) : IterNext(i)
Spec == Init /\ [][Next]_vars

\* ------------------------------------------- the blob is overwritten meanwhile
\* a whole-blob download of a blob of bytes, with or without
\* modified_access_conditions among the request options
InitE ==
    /\ etag = 0 /\ mac \in BOOLEAN /\ if_match = None
    /\ pages = NoMap /\ encrypted = FALSE /\ non_empty_ranges = NoMap
    /\ blob_len \in 0..MaxBlob
    /\ max_chunk_get_size \in 1..MaxChunk
    /\ max_single_get_size \in 1..MaxSingle
    /\ max_concurrency \in 1..MaxConc
    /\ validate_content = FALSE
    /\ start_range = None /\ end_range = None
    /\ encoding = FALSE /\ wide = FALSE
    /\ size = None /\ file_size = 0
    /\ current_content = <<>>
    /\ download_offset = 0 /\ raw_download_offset = 0
    /\ read_offset = 0 /\ current_content_offset = 0
    /\ text_mode = "unset" /\ decoder = <<>> /\ first_chunk = TRUE
    /\ pc = "new"
    /\ call = [op |-> "none"]
    /\ stream = [buf |-> <<>>, pos |-> 0, run |-> 0]
    /\ dls = <<>> /\ tasks = {} /\ iters = <<>>
    /\ result = Outcome("none", <<>>, "ok", <<>>, 0)
    /\ requests = <<>> /\ delivered = <<>> /\ progress = <<>> /\ raised = FALSE
    /\ ncalls = 0 /\ nfail = 0

\* another client overwrites the blob: new content of the same length, new ETag
Mutate ==
    /\ etag < MaxEtag
    /\ etag' = etag + 1
    /\ UNCHANGED <<blob_len, wide, start_range, end_range, max_concurrency,
                   encoding, validate_content, max_single_get_size,
                   max_chunk_get_size, mac, pages, encrypted, facadeVars, pc,
                   call, stream, dls,
                   tasks, iters, result, requests, delivered, progress, raised,
                   ncalls, nfail>>

\* the range GET of a dispatched future is answered 412: If-Match names
\* another ETag than the blob has
TaskPrecondFail(t) ==
    /\ t \in tasks /\ t.st = "flight"
    /\ ~Optimized(t.d, dls[t.run].end_index)
    /\ ~Matches
    /\ LET awaited == pc \in {"sched", "drain"} /\ call.run = t.run
       IN  tasks' = IF awaited THEN (tasks \ {t}) \cup {[t EXCEPT !.st = "fail"]}
                    ELSE tasks \ {t}
    /\ UNCHANGED <<confVars, facadeVars, pc, call, stream, dls, iters, result,
                   requests, delivered, raised, progress, ncalls, nfail>>

\* the awaited chunk of the sequential loop of read is answered 412
ReadSeqPrecondFail ==
    /\ pc = "read_seq"
    /\ ~Optimized(call.chunk, call.end_index)
    /\ ~Matches
    /\ pc' = "idle"
    /\ result' = Outcome("read", call.args, "http", <<>>, 412)
    /\ raised' = TRUE
    /\ UNCHANGED <<confVars, facadeVars, call, stream, dls, tasks, iters,
                   requests, delivered, progress, ncalls, nfail>>

\* the chunk __anext__ of iterator i asks for is answered 412
IterPrecondFail(i) ==
    /\ pc = "idle" /\ i \in 1..Len(iters)
    /\ ~Matches
    /\ LET it == iters[i]
           index == IF it.next = None THEN it.start_index ELSE it.next
       IN  /\ ~it.complete /\ it.has_dl
           /\ Len(it.content) < max_chunk_get_size
           /\ HasNext(index, it.end_index)
           /\ ~Optimized(index, it.end_index)
           /\ iters' = [iters EXCEPT ![i] =
                  [it EXCEPT !.next = index + max_chunk_get_size,
                             !.fetched = Append(@,
                                 ChunkRequest(index, it.end_index, "chunks", 0))]]
           /\ result' = Outcome("anext", <<>>, "http", <<>>, 412)
    /\ UNCHANGED <<confVars, facadeVars, pc, call, stream, dls, tasks, requests,
                   delivered, raised, progress, ncalls, nfail>>

NextE ==
    \/ Next
    \/ Mutate
    \/ \E t \in tasks : TaskPrecondFail(t)
    \/ ReadSeqPrecondFail
    \/ \E i \in 1..Len(iters) : IterPrecondFail(i)
SpecE == InitE /\ [][NextE]_vars

\* ===================================================== the claims, C1..C10
Live == pc \notin {"new", "failed"}
IsPrefix(s, t) == Len(s) <= Len(t) /\ s = SubSeq(t, 1, Len(s))
RECURSIVE Flatten(_)
Flatten(ss) == IF ss = <<>> THEN <<>> ELSE Head(ss) \o Flatten(Tail(ss))
\* the bytes a range request obtains: its range clipped to the blob
Covered(r) == IF r.kind = "range" THEN r.lo..Min(r.hi, blob_len - 1) ELSE {}
\* a read(-1) / read() or a readinto has returned
ReturnedAll ==
    /\ pc = "idle" /\ result.status = "ok"
    /\ \/ result.op = "readinto"
       \/ result.op = "read" /\ result.args[1] < 0 /\ result.args[2] = None

\* C1: absent any fetch failure, in bytes mode, what read(n) calls followed by
\* a readall() or a readinto(sink) hand to the caller is the requested window,
\* in order, nothing lost or duplicated, and no range fetched by these calls
\* covers a byte another of their fetches already downloaded.
C1_NoLossNoRefetch ==
    (Live /\ nfail = 0 /\ ~raised /\ text_mode # "text") =>
        /\ IsPrefix(delivered, Window)
        /\ ReturnedAll => delivered = Window
        /\ \A i, j \in 1..Len(requests) :
               i < j => Covered(requests[i]) \cap Covered(requests[j]) = {}
\* a read(n) delivered part of the buffer, then readall fetched the rest
C1_Witness ==
    /\ ReturnedAll /\ nfail = 0 /\ ~raised /\ text_mode = "bytes"
    /\ result.op = "read" /\ ncalls = 3
    /\ 0 < Len(result.data) /\ Len(result.data) < size
    /\ delivered = Window
    /\ Len(requests) >= 4

\* C2: readall() on a freshly set-up stream with no range restriction and no
\* fetch failure returns exactly the S bytes of the blob and leaves the stream
\* Complete: download_offset = read_offset = S and _download_complete holds.
FreshReadAll ==
    /\ ReturnedAll /\ result.op = "read" /\ nfail = 0
    /\ start_range = None
    /\ ncalls = 0 \/ (ncalls = 1 /\ result.data # <<>>)
C2_ReadAllRoundTrip ==
    FreshReadAll =>
        /\ result.data = BlobBytes(0, blob_len - 1)
        /\ size = blob_len
        /\ download_offset = size /\ read_offset = size
        /\ download_complete
\* a fresh readall that ran the scheduler over at least two chunks
C2_Witness ==
    /\ FreshReadAll /\ ncalls = 1 /\ Len(dls) = 1
    /\ Len(requests) >= 3 /\ size = MaxBlob

\* C3: after any prior bytes-mode calls, a new chunks() iterator, iterated to
\* exhaustion without fetch failure, yields the entire logical window.
C3_ChunksCoverWindow ==
    \A i \in 1..Len(iters) :
        (iters[i].complete /\ nfail = 0) => Flatten(iters[i].out) = Window

\* C4: whatever the completion order of the dispatched fetches, the bytes the
\* scheduler accumulates for readall() or writes to the sink of readinto() are
\* in logical order: every chunk lands at the position of its offset, the
\* stream never holds a byte at a position other than its own, and with
\* max_concurrency = 1 the chunks are appended in offset order (no gap).
C4_LogicalOrder ==
    (Live /\ nfail = 0 /\ ~raised /\ stream.run # 0) =>
        LET dl == dls[stream.run]
            \* stream position p holds the window byte first + p
            first == IF dl.status = "ok" THEN size - Len(stream.buf)
                     ELSE Len(delivered)
        IN  /\ \A p \in 1..Len(stream.buf) :
                  stream.buf[p] # 0 => stream.buf[p] = Window[first + p]
            /\ max_concurrency = 1 => \A p \in 1..Len(stream.buf) : stream.buf[p] # 0
            /\ dl.status = "ok" =>
                  stream.buf = SubSeq(Window, size - Len(stream.buf) + 1, size)
\* a later chunk has been written while an earlier one is still in flight
C4_Witness ==
    /\ pc = "sched" /\ nfail = 0 /\ ~raised /\ stream.run = call.run
    /\ \E p \in 1..Len(stream.buf) : stream.buf[p] = 0
    /\ stream.buf[Len(stream.buf)] # 0

\* C5: in every reachable state after setup, read_offset <= download_offset
\* <= size and current_content_offset <= len(current_content).
C5_OffsetInvariant ==
    Live => /\ read_offset <= download_offset
            /\ download_offset <= size
            /\ current_content_offset <= Len(current_content)

\* C6: while the scheduler of read() or readinto() runs, the chunk fetches it
\* has dispatched and not yet collected never exceed max_concurrency: the first
\* wave holds min(max_concurrency, plan) fetches and a new one is dispatched
\* only in place of a finished one.
RunTasks(r) == {t \in tasks : t.run = r}
RunRequests(r) == {k \in 1..Len(requests) : requests[k].run = r}
PlanOffsets(dl) ==
    {d \in dl.start_index..(dl.end_index - 1) :
        (d - dl.start_index) % max_chunk_get_size = 0}
C7_ExactlyOnce ==
    \A r \in 1..Len(dls) :
        /\ \A j, k \in RunRequests(r) :
               requests[j].lo = requests[k].lo => j = k
        /\ {requests[k].lo : k \in RunRequests(r)} \subseteq PlanOffsets(dls[r])
        /\ dls[r].status = "ok" =>
               {requests[k].lo : k \in RunRequests(r)} = PlanOffsets(dls[r])
\* a finished run of three chunks with two fetches at a time
C7_Witness ==
    \E r \in 1..Len(dls) :
        /\ dls[r].status = "ok" /\ max_concurrency = 2
        /\ Cardinality(RunRequests(r)) = 3

\* C8 as stated: the mode is set on the first consumption call; in text mode
\* read(size >= 0) is a usage error, in bytes mode read(chars=n) is one.
C8_SetOnFirstCall ==
    /\ (pc = "idle" /\ result.op \in {"read", "readinto"} /\ result.status = "ok")
           => text_mode # "unset"
    /\ (pc = "idle" /\ result.op = "read" /\ text_mode = "text" /\ result.args[1] > -1)
           => result.status = "usage"
    /\ (pc = "idle" /\ result.op = "read" /\ text_mode = "bytes" /\ result.args[2] # None)
           => result.status = "usage"
\* C8 as amended: the mode is set by the first read call that passes its
\* argument checks and its early return (a nonzero amount asked while unread
\* data remains); read(0), read(chars=0), a read of an exhausted stream,
\* readinto and chunks leave it as it is.  Once set it never changes: in text
\* mode read(size >= 0) is a usage error, in bytes mode read(chars=n) is one.
C8_ModeState ==
    /\ (pc = "idle" /\ result.op = "read" /\ text_mode = "text" /\ result.args[1] > -1)
           => result.status = "usage"
    /\ (pc = "idle" /\ result.op = "read" /\ text_mode = "bytes" /\ result.args[2] # None)
           => result.status = "usage"
    /\ (pc = "idle" /\ result.op = "read" /\
        (result.data # <<>> \/ result.status \in {"http", "decode"}))
           => text_mode # "unset"
    /\ (pc = "read_seq" \/ (pc \in {"sched", "drain"} /\ call.op = "read"))
           => text_mode # "unset"
C8_ModeStep ==
    /\ text_mode # "unset" => text_mode' = text_mode
    /\ text_mode' # text_mode =>
           /\ ncalls' = ncalls + 1
           /\ IF pc' = "idle" THEN result'.op = "read" ELSE call'.op = "read"
    /\ (pc = "idle" /\ pc' = "idle" /\ result'.op = "read" /\
        result'.status = "ok" /\ result'.data = <<>> /\ ncalls' = ncalls)
           => text_mode' = text_mode
    /\ (result' # result /\ result'.op \in {"readinto", "chunks", "anext"})
           => text_mode' = text_mode
C8_ModeIrrevocable == [](C8_ModeState) /\ [][C8_ModeStep]_vars
\* a read(size) refused on a stream that an earlier read(chars) put in text mode
C8_Witness ==
    /\ text_mode = "text" /\ ncalls >= 1
    /\ result.op = "read" /\ result.args[1] > -1 /\ result.args[2] = None
    /\ result.status = "usage"

\* C9: read raises a usage error when both size (> -1) and chars are given,
\* and when chars is given but no encoding was configured.
C9_ReadArgumentErrors ==
    (result.op = "read" /\
     \/ result.args[1] > -1 /\ result.args[2] # None
     \/ result.args[2] # None /\ ~encoding)
        => result.status = "usage"
\* both given on a stream with an encoding and no mode yet
C9_Witness ==
    /\ result.op = "read" /\ result.args[1] > -1 /\ result.args[2] # None
    /\ encoding /\ text_mode = "unset" /\ result.status = "usage"

\* C10: readinto raises a usage error in text mode, and when max_concurrency
\* > 1 and the sink is not seekable; chunks() raises one in text mode; with
\* max_concurrency = 1 a sink that is not seekable is accepted.
C10_SinkAndModeErrors ==
    /\ (pc = "idle" /\ result.op = "readinto" /\
        (text_mode = "text" \/ (max_concurrency > 1 /\ ~result.args[1])))
           => result.status = "usage"
    /\ (pc = "idle" /\ result.op = "chunks" /\ text_mode = "text")
           => result.status = "usage"
    /\ (pc = "idle" /\ result.op = "readinto" /\ max_concurrency = 1 /\
        text_mode # "text")
           => result.status # "usage"
    /\ (pc \in {"sched", "drain"} /\ call.op = "readinto")
           => (text_mode # "text" /\ (max_concurrency > 1 => call.args[1]))
\* a sink that is not seekable took a download of several chunks
C10_Witness ==
    /\ result.op = "readinto" /\ ~result.args[1] /\ max_concurrency = 1
    /\ result.status = "ok" /\ result.n > 1 /\ Len(dls) >= 1

\* =================================================== the claims, C11..C20
\* a step in which the consumer calls read, readinto or chunks: the call
\* either returns at once (a new result, still idle) or starts to wait
CallStep(op) ==
    /\ pc = "idle"
    /\ \/ pc' = "idle" /\ result' # result /\ result'.op = op
       \/ pc' # "idle" /\ call'.op = op
StepArgs == IF pc' = "idle" THEN result'.args ELSE call'.args
Returned(status) == pc' = "idle" /\ result'.status = status

\* C11: a read, readinto or chunks call that is a usage error (mixed modes,
\* chars without encoding, size and chars both given, sink not seekable under
\* parallel download, byte-only operation in text mode) raises, issues no
\* range fetch, writes nothing to the sink and leaves the four offsets, the
\* buffered chunk and the mode as they were.
C11_Misuse ==
    \/ /\ CallStep("read")
       /\ \/ StepArgs[1] > -1 /\ StepArgs[2] # None
          \/ StepArgs[2] # None /\ ~encoding
          \/ text_mode = "text" /\ StepArgs[1] > -1
          \/ text_mode = "bytes" /\ StepArgs[2] # None
    \/ CallStep("readinto") /\ max_concurrency > 1 /\ ~StepArgs[1]
    \/ CallStep("readinto") /\ text_mode = "text"
    \/ CallStep("chunks") /\ text_mode = "text"
C11_UsageStep ==
    (C11_Misuse \/ (pc = "idle" /\ result' # result /\ Returned("usage"))) =>
        /\ Returned("usage")
        /\ UNCHANGED <<offVars, text_mode, decoder, first_chunk, requests, stream,
                       tasks, dls, iters, delivered, progress>>
C11_UsageErrorFrame == [][C11_UsageStep]_vars
\* readinto was refused in text mode on a stream that has been partly read
C11_Witness ==
    /\ pc = "idle" /\ result.op = "readinto" /\ result.status = "usage"
    /\ text_mode = "text" /\ read_offset > 0 /\ Len(requests) > 1

\* C12 as stated: in every reachable state read(0) and read(chars=0) return
\* empty output.
C12_ZeroReadReturnsEmpty ==
    (pc = "idle" /\ result.op = "read" /\
     (result.args[1] = 0 \/ result.args[2] = 0)) => result.status = "ok"
\* C12 as amended: read(0) and read(chars=0) never advance an offset, never
\* touch the buffered chunk and issue no fetch; they return empty output
\* unless the call is a usage error (read(0) in text mode, read(chars=0) in
\* bytes mode or without an encoding), which raises.
C12_ZeroStep ==
    (CallStep("read") /\ (StepArgs[1] = 0 \/ StepArgs[2] = 0)) =>
        /\ pc' = "idle" /\ result'.data = <<>>
        /\ result'.status =
              (IF \/ StepArgs[1] = 0 /\ text_mode = "text"
                  \/ StepArgs[2] = 0 /\ (text_mode = "bytes" \/ ~encoding)
               THEN "usage" ELSE "ok")
        /\ UNCHANGED <<offVars, requests, tasks, dls, delivered>>
C12_ZeroReadIdempotent == [][C12_ZeroStep]_vars
\* read(0) returned empty while part of the buffered chunk was still unread
C12_Witness ==
    /\ pc = "idle" /\ result.op = "read" /\ result.args = <<0, None>>
    /\ result.status = "ok" /\ text_mode = "bytes"
    /\ 0 < current_content_offset /\ current_content_offset < Len(current_content)

\* C13 as stated: once download_offset = size the stream stays so, and every
\* further read or readinto returns at once with no data and no range fetch.
C13_CompleteStep ==
    (Live /\ download_offset = size) =>
        /\ download_offset' = size
        /\ requests' = requests
        /\ (CallStep("read") \/ CallStep("readinto")) =>
               /\ Returned("ok") /\ result'.data = <<>> /\ result'.n = 0
C13_CompleteReturnsNothing == [][C13_CompleteStep]_vars
\* C13 as amended: once download_offset = size it stays so and no call issues
\* a range fetch through read or readinto; once the buffered chunk has been
\* consumed as well (current_content_offset >= len(current_content)), every
\* further read or readinto returns at once with no data (empty / 0) or
\* raises a usage error, and moves nothing.
C13_DrainedStep ==
    (Live /\ download_offset = size) =>
        /\ download_offset' = size
        /\ requests' = requests
        /\ (current_content_offset >= Len(current_content) /\
            (CallStep("read") \/ CallStep("readinto"))) =>
               /\ Returned("ok") \/ Returned("usage")
               /\ result'.data = <<>> /\ result'.n = 0
               /\ UNCHANGED <<offVars, stream, delivered, tasks, dls>>
C13_CompleteStaysComplete == [][C13_DrainedStep]_vars
\* read() returned empty on a stream that a scheduler run had completed
C13_Witness ==
    /\ pc = "idle" /\ download_offset = size /\ size > 0
    /\ current_content_offset >= Len(current_content)
    /\ result.op = "read" /\ result.args = <<-1, None>>
    /\ result.status = "ok" /\ result.data = <<>>
    /\ \E r \in 1..Len(dls) : dls[r].status = "ok"

\* C14: a 416 on the initial range request with no start range asked leads to
\* one plain (range-less) GET and size = 0, after which readall() returns
\* empty and chunks() yields nothing with no further network call; a 416 with
\* a start range asked, or any other transport error, is raised with no
\* fallback request.
Fallback == \E k \in 1..Len(requests) : requests[k].kind = "full"
C14_EmptyBlobFallback ==
    /\ Fallback =>
          /\ start_range = None /\ initial_request_start >= blob_len
          /\ Len(requests) = 2 /\ requests[2].kind = "full"
          /\ tasks = {} /\ dls = <<>>
          /\ \A i \in 1..Len(iters) : iters[i].fetched = <<>> /\ iters[i].out = <<>>
    /\ (Fallback /\ Live) =>
          /\ size = 0 /\ delivered = <<>>
          /\ result.op \in {"read", "readinto", "anext"} =>
                 /\ result.data = <<>> /\ result.n <= Len(iters)
                 /\ result.status \in {"ok", "stop", "usage"}
    /\ (Live /\ initial_request_start >= blob_len) => Fallback
    /\ (pc # "new" /\ start_range # None /\ initial_request_start >= blob_len) =>
          /\ pc = "failed" /\ result.status = "http"
    /\ (pc = "failed" /\ ~Fallback) => Len(requests) = 1
\* after the fallback an iterator of chunks() stopped at once and read()
\* returned empty
C14_Witness ==
    /\ Fallback /\ pc = "idle" /\ size = 0
    /\ result.op = "read" /\ result.args = <<-1, None>> /\ result.status = "ok"
    /\ Len(iters) = 1 /\ iters[1].complete /\ iters[1].out = <<>>

\* C15: over any sequence of read, readall and readinto calls and any
\* completion order of concurrent chunks, the first argument of successive
\* progress callbacks never decreases and never exceeds size, and the second
\* argument is always size.
C15_ProgressMonotone ==
    \A k \in 1..Len(progress) :
        /\ progress[k][2] = size
        /\ progress[k][1] <= size
        /\ k > 1 => progress[k - 1][1] <= progress[k][1]

\* C16: with a progress callback configured, every chunk fetch completed by
\* read, readall, readinto or by the iteration of chunks() is reported to the
\* callback with the cumulative logical byte count and the total size.
Reported(req) ==
    \E p \in 1..Len(progress) : progress[p] = <<req.hi + 1 - download_start, size>>
\* the chunk fetches of scheduler run r that have completed
SchedCompleted(r) ==
    {k \in 1..Len(requests) :
        /\ requests[k].run = r
        /\ ~\E t \in tasks : t.run = r /\ t.d = requests[k].lo /\ t.st = "flight"}
\* the chunk fetches of the sequential loop of read that have completed
SeqCompleted ==
    {k \in 1..Len(requests) :
        /\ requests[k].by = "read" /\ requests[k].run = 0
        /\ ~(pc = "read_seq" /\ call.chunk = requests[k].lo)}
\* concurrent chunks complete in any order: the count is that of the bytes
\* completed so far, reported once per chunk
C16_SchedReported ==
    nfail = 0 => \A r \in 1..Len(dls) :
        SchedCompleted(r) # {} =>
            /\ Len(progress) >= Cardinality(SchedCompleted(r))
            /\ \E p \in 1..Len(progress) : progress[p] = <<dls[r].progress_total, size>>
C16_SeqReported == nfail = 0 => \A k \in SeqCompleted : Reported(requests[k])
C16_IterReported ==
    nfail = 0 => \A i \in 1..Len(iters) :
                    \A k \in 1..Len(iters[i].fetched) : Reported(iters[i].fetched[k])
C16_ProgressPerChunk ==
    C16_SchedReported /\ C16_SeqReported /\ C16_IterReported

\* a read-all or readinto has just raised the error of a failed chunk fetch
SchedulerRaised ==
    /\ pc = "idle" /\ result.status = "http"
    /\ result.op \in {"read", "readinto"} /\ call.run > 0
    /\ dls[call.run].status = "failed"

\* C18: when a chunk fetch fails during a concurrent read-all or readinto,
\* the call raises only after every fetch it had dispatched has completed
\* (none is still in flight), and nothing is dispatched after the failure.
C18_NoDispatchAfterFailure ==
    \A r \in 1..Len(dls) :
        dls[r].status = "failed" =>
            \A t \in RunTasks(r) : \E k \in RunRequests(r) : requests[k].lo = t.d
C18_RaisesAfterWave ==
    /\ SchedulerRaised => \A t \in RunTasks(call.run) : t.st # "flight"
    /\ C18_NoDispatchAfterFailure

\* C19: when one chunk fetch of a concurrent wave fails the call raises, and
\* afterwards download_offset, raw_download_offset and read_offset account
\* for the chunks that succeeded: the offset the plan started at plus the
\* bytes of the chunks completed, which the downloader counts in
\* progress_total.
C19_OffsetsCountSucceeded ==
    SchedulerRaised =>
        /\ download_offset = dls[call.run].progress_total
        /\ raw_download_offset = dls[call.run].progress_total
        /\ read_offset = dls[call.run].progress_total

\* C20: a successful readinto(sink) returns the number of bytes it wrote,
\* which is size - read_offset at the time of the call; it writes exactly
\* those bytes, in order; and it returns 0 and writes nothing when
\* read_offset is already size.
C20_Accepted == CallStep("readinto") /\ text_mode # "text" /\
                (max_concurrency > 1 => StepArgs[1])
C20_CallStep ==
    C20_Accepted =>
        IF pc' = "idle"
        THEN /\ result'.status = "ok"
             /\ result'.n = Max(size - read_offset, 0)
             /\ read_offset >= size => (stream' = stream /\ delivered' = delivered)
             /\ read_offset < size =>
                    /\ stream'.buf = SubSeq(Window, read_offset + 1, size)
                    /\ read_offset' = size
        ELSE call'.ret = size - read_offset /\ call'.ret > 0
C20_ReturnStep ==
    (pc \in {"sched", "drain"} /\ call.op = "readinto" /\ Returned("ok")) =>
        /\ result'.n = call.ret
        /\ result'.n = Len(stream'.buf)
        /\ stream'.buf = SubSeq(Window, size - call.ret + 1, size)
        /\ read_offset' = size
C20_ReadIntoCount == [][C20_CallStep /\ C20_ReturnStep]_vars
\* readinto wrote the rest of the window after a read(n) had taken its start
C20_Witness ==
    /\ pc = "idle" /\ result.op = "readinto" /\ result.status = "ok"
    /\ 0 < result.n /\ result.n < size /\ Len(stream.buf) = result.n
    /\ \E r \in 1..Len(dls) : dls[r].op = "readinto" /\ dls[r].status = "ok"

\* C17 as stated: if the blob is overwritten (its ETag changes) after the
\* initial request, a later chunk fetch of the download fails and nothing
\* returned or written is stitched from chunks of two versions.
Versions(s) == {s[i] \div Version : i \in {j \in 1..Len(s) : s[j] # 0}}
OneVersion(s) == Cardinality(Versions(s)) <= 1
C17_Pinned ==
    (tasks # {} \/ pc = "read_seq" \/ \E i \in 1..Len(iters) : iters[i].has_dl)
        => if_match # None
C17_FailStep ==
    (if_match # None /\ if_match # etag) =>
        /\ \A r \in 1..Len(dls) : dls'[r].progress_total = dls[r].progress_total
        /\ pc = "read_seq" =>
               /\ UNCHANGED offVars
               /\ pc' # "read_seq" => Returned("http")
        /\ \A i \in 1..Len(iters) :
               (Len(iters') = Len(iters) /\
                Len(iters'[i].fetched) > Len(iters[i].fetched))
                   => Returned("http")
InitL ==
    /\ etag = 0 /\ mac = TRUE /\ if_match = None
    /\ pages = NoMap /\ encrypted = FALSE /\ non_empty_ranges = NoMap
    /\ blob_len \in 0..MaxBlob
    /\ max_chunk_get_size \in 1..MaxChunk
    /\ max_single_get_size \in 1..MaxSingle
    /\ max_concurrency \in 1..MaxConc
    /\ validate_content = FALSE
    /\ start_range \in {None} \cup 0..MaxStart
    /\ end_range = None
    /\ encoding \in BOOLEAN /\ wide = FALSE
    /\ size = None /\ file_size = 0
    /\ current_content = <<>>
    /\ download_offset = 0 /\ raw_download_offset = 0
    /\ read_offset = 0 /\ current_content_offset = 0
    /\ text_mode = "unset" /\ decoder = <<>> /\ first_chunk = TRUE
    /\ pc = "new"
    /\ call = [op |-> "none"]
    /\ stream = [buf |-> <<>>, pos |-> 0, run |-> 0]
    /\ dls = <<>> /\ tasks = {} /\ iters = <<>>
    /\ result = Outcome("none", <<>>, "ok", <<>>, 0)
    /\ requests = <<>> /\ delivered = <<>> /\ progress = <<>> /\ raised = FALSE
    /\ ncalls = 0 /\ nfail = 0
\* no chunk fetch of read or readinto fails
NextL ==
    \/ SetupOk \/ Setup416
    \/ \E a \in ReadArgs : ReadCall(a[1], a[2])
    \/ ReadSeqStep
    \/ \E t \in tasks : TaskDone(t)
    \/ SchedWake \/ SchedDrain
    \/ \E seekable \in BOOLEAN : ReadIntoCall(seekable)
    \/ ChunksCall
    \/ \E i \in 1..Len(iters) : IterNext(i)
\* the event loop runs every future that is ready and resumes every
\* coroutine whose wait is over
SpecL ==
    /\ InitL /\ [][NextL]_vars
    /\ WF_vars(\E t \in tasks : TaskDone(t))
    /\ WF_vars(ReadSeqStep)
    /\ WF_vars(SchedWake)
    /\ WF_vars(SchedDrain)

\* ----------------------------------------------- an encrypted block blob
EncStart == 2         \* the start_range tried, when one is given
EncEnd == 10          \* the end_range tried, when one is given
\* a download with an encryption key of a blob of up to two cipher blocks.
\* The first request ends inside the blob: what decrypt_blob makes of a
\* response that the end of the blob cuts short is not modelled.
InitC ==
    /\ etag = 0 /\ mac = TRUE /\ if_match = None
    /\ pages = NoMap /\ encrypted = TRUE /\ non_empty_ranges = NoMap
    /\ blob_len \in {0, CipherBlock, 2 * CipherBlock}
    /\ max_chunk_get_size \in {CipherBlock \div 2, CipherBlock}
    /\ max_single_get_size \in {MaxSingle, CipherBlock \div 2, CipherBlock}
    /\ max_concurrency \in 1..MaxConc
    /\ validate_content = FALSE
    /\ start_range \in {None, EncStart}
    /\ end_range \in {None, EncEnd}
    /\ end_range # None => start_range # None /\ start_range <= end_range
    /\ blob_len > 0 => initial_request_end < blob_len
    /\ encoding = FALSE /\ wide = FALSE
    /\ size = None /\ file_size = 0
    /\ current_content = <<>>
    /\ download_offset = 0 /\ raw_download_offset = 0
    /\ read_offset = 0 /\ current_content_offset = 0
    /\ text_mode = "unset" /\ decoder = <<>> /\ first_chunk = TRUE
    /\ pc = "new"
    /\ call = [op |-> "none"]
    /\ stream = [buf |-> <<>>, pos |-> 0, run |-> 0]
    /\ dls = <<>> /\ tasks = {} /\ iters = <<>>
    /\ result = Outcome("none", <<>>, "ok", <<>>, 0)
    /\ requests = <<>> /\ delivered = <<>> /\ progress = <<>> /\ raised = FALSE
    /\ ncalls = 0 /\ nfail = 0

\* decrypt_blob raises on the first response: process_content wraps the
\* exception in an HttpResponseError that carries the response, and _setup
\* lets it out
SetupDecryptFail ==
    /\ pc = "new" /\ encrypted
    /\ initial_range.lo < blob_len
    /\ InitialSize(blob_len) # 0
    /\ nfail < MaxFail
    /\ nfail' = nfail + 1
    /\ file_size' = blob_len
    /\ size' = InitialSize(blob_len)
    /\ requests' = Append(requests,
           Request("range", initial_range.lo, initial_range.hi, "init", 0))
    /\ pc' = "failed"
    /\ result' = Outcome("setup", <<>>, "http", <<>>, partial_content)
    /\ UNCHANGED <<confVars, offVars, text_mode, decoder, first_chunk, if_match,
                   non_empty_ranges, call, stream, dls, tasks, iters, delivered,
                   raised, progress, ncalls>>

\* decrypt_blob raises on the chunk of a dispatched future
TaskDecryptFail(t) ==
    /\ t \in tasks /\ t.st = "flight" /\ encrypted
    /\ ~Optimized(t.d, dls[t.run].end_index)
    /\ Matches
    /\ nfail < MaxFail
    /\ nfail' = nfail + 1
    /\ LET awaited == pc \in {"sched", "drain"} /\ call.run = t.run
       IN  tasks' = IF awaited THEN (tasks \ {t}) \cup {[t EXCEPT !.st = "decrypt"]}
                    ELSE tasks \ {t}
    /\ UNCHANGED <<confVars, facadeVars, pc, call, stream, dls, iters, result,
                   requests, delivered, raised, progress, ncalls>>

\* decrypt_blob raises on the awaited chunk of the sequential loop of read
ReadSeqDecryptFail ==
    /\ pc = "read_seq" /\ encrypted
    /\ ~Optimized(call.chunk, call.end_index)
    /\ Matches
    /\ nfail < MaxFail
    /\ nfail' = nfail + 1
    /\ pc' = "idle"
    /\ result' = Outcome("read", call.args, "http", <<>>, partial_content)
    /\ raised' = TRUE
    /\ UNCHANGED <<confVars, facadeVars, call, stream, dls, tasks, iters,
                   requests, delivered, progress, ncalls>>

\* decrypt_blob raises on the chunk __anext__ of iterator i fetched
IterDecryptFail(i) ==
    /\ pc = "idle" /\ i \in 1..Len(iters) /\ encrypted
    /\ Matches
    /\ nfail < MaxFail
    /\ nfail' = nfail + 1
    /\ LET it == iters[i]
           index == IF it.next = None THEN it.start_index ELSE it.next
       IN  /\ ~it.complete /\ it.has_dl
           /\ Len(it.content) < max_chunk_get_size
           /\ HasNext(index, it.end_index)
           /\ ~Optimized(index, it.end_index)
           /\ iters' = [iters EXCEPT ![i] =
                  [it EXCEPT !.next = index + max_chunk_get_size,
                             !.fetched = Append(@,
                                 ChunkRequest(index, it.end_index, "chunks", 0))]]
           /\ result' = Outcome("anext", <<>>, "http", <<>>, partial_content)
    /\ UNCHANGED <<confVars, facadeVars, pc, call, stream, dls, tasks, requests,
                   delivered, raised, progress, ncalls>>

NextC ==
    \/ Next
    \/ SetupDecryptFail
    \/ \E t \in tasks : TaskDecryptFail(t)
    \/ ReadSeqDecryptFail
    \/ \E i \in 1..Len(iters) : IterDecryptFail(i)
SpecC == InitC /\ [][NextC]_vars

\* ------------------------------------------------------ a sparse page blob
\* a whole-blob download of a page blob whose pages are one byte long and
\* partly empty
InitS ==
    /\ etag = 0 /\ mac = TRUE /\ if_match = None
    /\ blob_len \in 0..MaxBlob
    /\ pages \in SUBSET (0..(blob_len - 1))
    /\ encrypted = FALSE /\ non_empty_ranges = NoMap
    /\ max_chunk_get_size \in 1..MaxChunk
    /\ max_single_get_size \in 1..MaxSingle
    /\ max_concurrency \in 1..MaxConc
    /\ validate_content = FALSE
    /\ start_range = None /\ end_range = None
    /\ encoding = FALSE /\ wide = FALSE
    /\ size = None /\ file_size = 0
    /\ current_content = <<>>
    /\ download_offset = 0 /\ raw_download_offset = 0
    /\ read_offset = 0 /\ current_content_offset = 0
    /\ text_mode = "unset" /\ decoder = <<>> /\ first_chunk = TRUE
    /\ pc = "new"
    /\ call = [op |-> "none"]
    /\ stream = [buf |-> <<>>, pos |-> 0, run |-> 0]
    /\ dls = <<>> /\ tasks = {} /\ iters = <<>>
    /\ result = Outcome("none", <<>>, "ok", <<>>, 0)
    /\ requests = <<>> /\ delivered = <<>> /\ progress = <<>> /\ raised = FALSE
    /\ ncalls = 0 /\ nfail = 0
SpecS == InitS /\ [][Next]_vars

\* ------------------------------------------------- the claims, C21..C30
IsSuffix(s, t) ==
    Len(s) <= Len(t) /\ s = SubSeq(t, Len(t) - Len(s) + 1, Len(t))
\* what the whole window reads as in the mode of the stream
WindowOut == IF text_mode = "text" THEN DecodeChars(Window) ELSE Window
FullyRead ==
    download_complete /\ current_content_offset >= Len(current_content)

\* C21: a read with size unspecified or negative, or with chars negative on
\* a stream with an encoding, that returns has returned everything that
\* remained (its output ends where the window ends) and has left the stream
\* fully read, so that a following read returns empty.
C21_ReadsAll(args) == args[1] < 0 /\ (args[2] = None \/ args[2] < 0)
C21_NegativeReadsAll ==
    (pc = "idle" /\ result.op = "read" /\ result.status = "ok"
        /\ C21_ReadsAll(result.args))
    => /\ FullyRead
       /\ IsSuffix(result.data, WindowOut)
\* the same for a negative or unspecified size alone
C21_NegativeSizeReadsAll ==
    (pc = "idle" /\ result.op = "read" /\ result.status = "ok"
        /\ result.args[1] < 0 /\ result.args[2] = None)
    => /\ FullyRead
       /\ IsSuffix(result.data, WindowOut)

\* C22 as stated: in text mode successive read(chars=k) calls return the
\* next k characters each, and each call advances current_content_offset and
\* read_offset by the UTF-8 byte length of the characters it returned.
RECURSIVE ByteLen(_)
ByteLen(cs) == IF cs = <<>> THEN 0 ELSE CharLen(Head(cs)) + ByteLen(Tail(cs))
C22_TextRead == pc = "idle" /\ text_mode = "text" /\ ~raised
C22_CharsStep ==
    CallStep("read") /\ Returned("ok") /\ text_mode' = "text" /\ StepArgs[2] > 0
C22_ByteStep ==
    C22_CharsStep =>
        /\ read_offset' = read_offset + ByteLen(result'.data)
        /\ current_content_offset' =
               current_content_offset + ByteLen(result'.data)
C22_OffsetsAdvanceByBytes ==
    /\ [](C22_TextRead => read_offset = ByteLen(delivered))
    /\ [][C22_ByteStep]_vars
\* C22 as amended: the characters are returned in order, k per call until
\* the stream is fully read, and the two offsets advance by the number of
\* characters returned.
C22_CharStep ==
    C22_CharsStep =>
        /\ read_offset' = read_offset + Len(result'.data)
        /\ current_content_offset' =
               current_content_offset + Len(result'.data)
C22_InOrder ==
    C22_TextRead =>
        /\ delivered = SubSeq(DecodeChars(Window), 1, Len(delivered))
        /\ read_offset = Len(delivered)
        /\ (result.op = "read" /\ result.status = "ok" /\ result.args[2] > 0)
               => \/ Len(result.data) = result.args[2]
                  \/ FullyRead /\ Len(result.data) < result.args[2]
C22_OffsetsAdvanceByChars ==
    /\ []C22_InOrder
    /\ [][C22_CharStep]_vars
\* two read(chars=1) calls have returned two characters, the second of them
\* a two-byte character
C22_Witness ==
    /\ C22_TextRead /\ result.op = "read" /\ result.status = "ok"
    /\ result.args = <<-1, 1>> /\ ncalls = 2
    /\ Len(delivered) = 2 /\ delivered[2] > 100
    /\ read_offset = 2

\* C24: when every dispatched chunk fetch completes successfully, every
\* readall() call returns and the stream is then complete and fully read;
\* while the scheduler waits some future of the call is in flight or
\* finished, and when it returns no chunk offset is left undispatched.
C24_ReadAll(c) == c.op = "read" /\ c.args = <<-1, None>>
C24_Running == pc \in {"read_seq", "sched", "drain"} /\ C24_ReadAll(call)
C24_Returned ==
    /\ pc = "idle" /\ C24_ReadAll(result)
    /\ result.status \in {"ok", "decode"}
    /\ FullyRead
C24_NeverWaitsOnNothing ==
    pc = "sched" => \E t \in tasks : t.run = call.run
C24_AllDispatched ==
    (pc = "idle" /\ result.op \in {"read", "readinto"} /\ result.status = "ok"
        /\ Len(dls) > 0 /\ dls[Len(dls)].status = "ok" /\ call.run = Len(dls))
    => ~HasNext(call.next, call.end_index)
C24_ReadAllTerminates ==
    /\ C24_Running ~> C24_Returned
    /\ [](C24_NeverWaitsOnNothing /\ C24_AllDispatched)
\* a readall that ran the scheduler over more than one wave has returned
C24_Witness ==
    /\ C24_Returned /\ result.status = "ok"
    /\ call.op = "read" /\ call.run = Len(dls) /\ call.run > 0
    /\ Cardinality({k \in 1..Len(requests) : requests[k].run = call.run})
           > max_concurrency

\* C25 as stated: a full download of N bytes with chunk size C dispatches
\* ceil(N / C) fetches, all of size C except a possibly shorter last one,
\* with never more than max_concurrency outstanding, and reassembles N bytes.
CeilDiv(a, b) == (a + b - 1) \div b
ReqLen(r) == r.hi - r.lo + 1
\* the first consumer call was a readall or a readinto and has returned
C25_FullDownload ==
    /\ pc = "idle" /\ ncalls = 1 /\ nfail = 0 /\ size # None /\ size > 0
    /\ result.status = "ok"
    /\ \/ result.op = "readinto" /\ result.n = size
       \/ /\ result.op = "read" /\ result.args = <<-1, None>>
          /\ text_mode = "bytes" /\ result.n = size
C25_Outstanding ==
    pc \in {"sched", "drain"} =>
        Cardinality({t \in tasks : t.run = call.run /\ t.st = "flight"})
            <= max_concurrency
C28_ThreeStep ==
    /\ download_offset' >= download_offset
    /\ raw_download_offset' >= raw_download_offset
    /\ read_offset' >= read_offset
C28_AllFourMonotone ==
    [][C28_ThreeStep /\ current_content_offset' >= current_content_offset]_vars
\* C28 as amended: download_offset, raw_download_offset and read_offset never
\* decrease; current_content_offset never decreases while the buffered chunk
\* stays the same, and restarts at the amount consumed of the new chunk when
\* the sequential loop of read replaces the buffer.
C28_BufferStep ==
    IF pc = "read_seq" /\ download_offset' > download_offset
    THEN current_content_offset' <= Len(current_content')
    ELSE current_content_offset' >= current_content_offset
C28_MonotoneButBufferOffset ==
    [][C28_ThreeStep /\ C28_BufferStep]_vars
\* a read has consumed a first chunk of two bytes and then a chunk of one
C28_Witness ==
    /\ pc = "idle" /\ result.op = "read" /\ result.status = "ok"
    /\ text_mode = "bytes"
    /\ read_offset = 3 /\ Len(current_content) = 1
    /\ current_content_offset = 1

\* C30: over any sequence of read and readinto calls in which no fetch
\* fails, the progress callback is invoked at most once per completed chunk:
\* no two invocations report the same cumulative byte count.
C30_ProgressOncePerChunk ==
    nfail = 0 =>
        \A j, k \in 1..Len(progress) :
            j < k => progress[j][1] # progress[k][1]

\* C23: a chunk whose wire range lies wholly outside every non-empty range
\* of the page map is never requested and comes back as exactly
\* range_end - range_start + 1 zero bytes; every other chunk is requested
\* exactly once.
\* the chunk offsets the scheduler of the running call has dispatched
C23_Dispatched ==
    {d \in dls[call.run].start_index..(call.next - 1) :
        /\ d < call.end_index
        /\ (d - dls[call.run].start_index) % max_chunk_get_size = 0}
C23_RequestsOf(d) ==
    {k \in 1..Len(requests) :
        /\ requests[k].run = call.run
        /\ requests[k].lo = d}
C23_ChunkLogs ==
    requests \o
    (IF iters = <<>> THEN <<>> ELSE iters[1].fetched)
C23_NoRequestInHole ==
    \A k \in 1..Len(C23_ChunkLogs) :
        LET r == C23_ChunkLogs[k]
        IN  (r.kind = "range" /\ r.by # "init") =>
                \E i \in r.lo..r.hi :
                    non_empty_ranges = NoMap \/ i \in non_empty_ranges
C23_OneRequestOtherwise ==
    (pc \in {"sched", "drain"}) =>
        \A d \in C23_Dispatched :
            Cardinality(C23_RequestsOf(d)) =
                IF Optimized(d, call.end_index) THEN 0 ELSE 1
C23_ZeroFilled ==
    /\ \A t \in tasks :
          (t.st = "flight" /\ Optimized(t.d, dls[t.run].end_index)) =>
              LET n == calculate_range(t.d, dls[t.run].end_index) - t.d
              IN  /\ download_chunk(t.d, dls[t.run].end_index) = Zeros(n)
                  /\ content_length(t.d, dls[t.run].end_index) = n
                  /\ BlobBytes(t.d, t.d + n - 1) = Zeros(n)
    /\ (pc = "idle" /\ result.op = "readinto" /\ result.status = "ok"
           /\ result.n = size /\ size > 0)
       => stream.buf = Window
C23_SparseSkip ==
    C23_NoRequestInHole /\ C23_OneRequestOtherwise /\ C23_ZeroFilled
\* a readinto has returned after two chunks, one of them skipped
C23_Witness ==
    /\ pc = "idle" /\ result.op = "readinto" /\ result.status = "ok"
    /\ non_empty_ranges # NoMap
    /\ call.op = "readinto" /\ call.run = Len(dls)
    /\ Cardinality({d \in C23_Dispatched : Optimized(d, call.end_index)}) = 1
    /\ Cardinality({d \in C23_Dispatched : ~Optimized(d, call.end_index)}) = 1

\* C29: when no encryption is active raw_download_offset equals
\* download_offset in every state of a set-up stream, so that the completion
\* check raw_download_offset >= size holds exactly when download_offset = size.
C29_RawEqualsLogical ==
    (~encrypted /\ pc \notin {"new", "failed"}) =>
        /\ raw_download_offset = download_offset
        /\ download_complete <=> download_offset = size
\* a read has pulled a sparse-skipped chunk after the first one
C29_Witness ==
    /\ ~encrypted /\ pc = "idle" /\ non_empty_ranges # NoMap
    /\ result.op = "read" /\ result.status = "ok"
    /\ result.args = <<2, None>> /\ Len(result.data) = 2
    /\ max_single_get_size = 1
    /\ \A k \in 1..Len(requests) : requests[k].by = "init"
    /\ raw_download_offset = download_offset /\ download_offset > 1

\* C26: with an encryption key, a blob of one cipher block and the range
\* [EncStart, EncEnd], the first request asks for the whole block, and the
\* first read of everything returns as many plaintext bytes as the stream
\* exposes as its size, those of the range. (size is 9 here, the length of
\* the inclusive range, by the min of _initial_request.) It fails when
\* max_single_get_size is below the range's length: the block's 16 wire bytes
\* take raw_download_offset past size, so the download counts as complete
\* with the first response and the tail of the range is never fetched.
C26_Scenario ==
    /\ encrypted /\ blob_len = CipherBlock
    /\ start_range = EncStart /\ end_range = EncEnd
C26_FirstReadAll ==
    /\ pc = "idle" /\ ~raised /\ nfail = 0
    /\ result.op = "read" /\ result.args = <<-1, None>> /\ result.status = "ok"
    /\ delivered = result.data
C26_BlockFetchReturnsSize ==
    C26_Scenario /\ C26_FirstReadAll =>
        /\ requests[1] = Request("range", 0, CipherBlock - 1, "init", 0)
        /\ size = end_range - start_range + 1
        /\ Len(result.data) = size
        /\ result.data = Window
\* the same with max_single_get_size no smaller than the range: it holds
C26_SingleShot ==
    C26_Scenario /\ C26_FirstReadAll /\ max_single_get_size >= size =>
        /\ requests[1] = Request("range", 0, CipherBlock - 1, "init", 0)
        /\ size = end_range - start_range + 1
        /\ result.data = Window

\* C27: a failure of the decrypt step, on the first response or on a fetched
\* chunk, reaches the caller as a raised error and never as returned data.
\* The error is an HttpResponseError, the class of the transport errors of
\* failed range fetches (the claim says a distinct kind); what tells it apart
\* is the response it carries, the successful one of the fetch, with the
\* message "Decryption failed." and the decryption exception as its cause.
C27_DecryptTask(t) == t \in tasks /\ t.run = call.run /\ t.st = "decrypt"
C27_FailTask(t) == t \in tasks /\ t.run = call.run /\ t.st = "fail"
C27_SchedReturns == pc \in {"sched", "drain"} /\ pc' = "idle"
\* the steps in which a decryption failure reaches the caller
C27_DecryptSurfaces ==
    \/ SetupDecryptFail
    \/ ReadSeqDecryptFail
    \/ \E i \in 1..Len(iters) : IterDecryptFail(i)
    \/ C27_SchedReturns /\ \E t \in tasks : C27_DecryptTask(t)
\* the steps in which the failure of a range fetch reaches the caller
C27_TransportSurfaces ==
    \/ SetupFail
    \/ ReadSeqFail
    \/ /\ C27_SchedReturns
       /\ \E t \in tasks : C27_FailTask(t)
       /\ ~\E t \in tasks : C27_DecryptTask(t)
C31_OneAtATime(args, mode) ==
    ~(ReadAmount(args[1], args[2], mode) = maxsize /\ mode # "text")
C31_Issued ==
    /\ Len(requests') > Len(requests)
    /\ requests'[Len(requests')].by = "read"
    /\ (pc' = "read_seq" \/ pc = "read_seq")
C31_ChunkByChunk ==
    [][/\ (CallStep("read") /\ pc' # "idle") =>
            (pc' = "read_seq" <=> C31_OneAtATime(call'.args, text_mode'))
       /\ (pc' = "read_seq" \/ pc = "read_seq") =>
            /\ Len(requests') <= Len(requests) + 1
            /\ tasks' \subseteq tasks
       /\ C31_Issued =>
            /\ pc' = "read_seq"
            /\ requests'[Len(requests')].lo = download_start + download_offset'
            /\ requests'[Len(requests')].lo = call'.chunk
            /\ current_content_offset' >= Len(current_content')
            /\ call'.remaining > 0
            /\ pc = "read_seq" => download_offset' > download_offset
       /\ (pc = "read_seq" /\ Returned("ok")) =>
            /\ requests' = requests
            /\ \/ Len(result'.data) =
                      ReadAmount(call.args[1], call.args[2], text_mode)
               \/ download_offset' = size]_vars
\* a read of everything in text mode waits for its second chunk in a row
\* although two fetches may run side by side
C31_Witness ==
    /\ pc = "read_seq" /\ max_concurrency > 1
    /\ text_mode = "text" /\ call.args = <<-1, None>>
    /\ Len(requests) >= 3
    /\ requests[Len(requests)].by = "read"
    /\ requests[Len(requests) - 1].by = "read"
    /\ requests[Len(requests)].lo > requests[Len(requests) - 1].lo
    /\ Len(stream.buf) > 0

\* ------------------------------------------- every pair of the two sizes
\* a download of bytes with or without validate_content, whatever the two
\* sizes are
InitV ==
    /\ etag = 0 /\ mac = TRUE /\ if_match = None
    /\ pages = NoMap /\ encrypted = FALSE /\ non_empty_ranges = NoMap
    /\ blob_len \in 0..MaxBlob
    /\ max_chunk_get_size \in 1..MaxChunk
    /\ max_single_get_size \in 1..MaxSingle
    /\ max_concurrency \in 1..MaxConc
    /\ validate_content \in BOOLEAN
    /\ start_range \in {None} \cup 0..MaxStart
    /\ end_range \in {None, MaxEnd}
    /\ end_range # None => start_range # None /\ start_range <= end_range
    /\ encoding = FALSE /\ wide = FALSE
    /\ size = None /\ file_size = 0
    /\ current_content = <<>>
    /\ download_offset = 0 /\ raw_download_offset = 0
    /\ read_offset = 0 /\ current_content_offset = 0
    /\ text_mode = "unset" /\ decoder = <<>> /\ first_chunk = TRUE
    /\ pc = "new"
    /\ call = [op |-> "none"]
    /\ stream = [buf |-> <<>>, pos |-> 0, run |-> 0]
    /\ dls = <<>> /\ tasks = {} /\ iters = <<>>
    /\ result = Outcome("none", <<>>, "ok", <<>>, 0)
    /\ requests = <<>> /\ delivered = <<>> /\ progress = <<>> /\ raised = FALSE
    /\ ncalls = 0 /\ nfail = 0
SpecV == InitV /\ [][Next]_vars

\* C32 as stated: the first request asks for the smaller of
\* max_single_get_size and, with validate_content, max_chunk_get_size: its
\* range is [start, min(end_range, start + that - 1)].
C32_FirstRange(n) ==
    /\ requests[1].kind = "range" /\ requests[1].by = "init"
    /\ requests[1].lo = download_start
    /\ requests[1].hi = IF end_range # None
                        THEN Min(end_range, download_start + n - 1)
                        ELSE download_start + n - 1
C32_SmallerOfTheSizes ==
    Len(requests) >= 1 =>
        C32_FirstRange(IF validate_content
                       THEN Min(max_single_get_size, max_chunk_get_size)
                       ELSE max_single_get_size)
\* C32 as amended: the first request asks for max_chunk_get_size bytes with
\* validate_content, be it smaller or larger than max_single_get_size, and
\* for max_single_get_size bytes without.
C32_ChunkSizeWhenValidating ==
    Len(requests) >= 1 =>
        C32_FirstRange(IF validate_content THEN max_chunk_get_size
                       ELSE max_single_get_size)
\* with validate_content the first request was longer than
\* max_single_get_size
C32_Witness ==
    /\ pc = "idle" /\ validate_content
    /\ max_chunk_get_size > max_single_get_size
    /\ Len(requests) >= 1
    /\ requests[1].hi - requests[1].lo + 1 = max_chunk_get_size
    /\ Len(current_content) = max_chunk_get_size

\* C33: when the request for the page ranges of a page blob fails during
\* setup, setup succeeds all the same, _non_empty_ranges stays unset for the
\* rest of the download, and every chunk taken afterwards has its own range
\* request: none is created locally.
C33_Covered(log, i) ==
    \E k \in 1..Len(log) :
        log[k].kind = "range" /\ log[k].lo <= i /\ i <= log[k].hi
\* the step of setup in which get_page_ranges fails
C33_MapRequestFails ==
    /\ pc = "new" /\ pages # NoMap /\ nfail' = nfail + 1
    /\ Len(requests') > 0
    /\ requests'[Len(requests')].kind = "pages"
C33_NoMap == pages # NoMap /\ non_empty_ranges = NoMap /\ pc \notin {"new", "failed"}
C33_AllFetched ==
    /\ \A i \in 0..(download_offset - 1) : C33_Covered(requests, download_start + i)
    /\ \A t \in tasks : C33_Covered(requests, t.d)
    /\ pc = "read_seq" => C33_Covered(requests, call.chunk)
    /\ \A j \in 1..Len(iters) :
           iters[j].next # None =>
               \A i \in iters[j].start_index..(Min(iters[j].next, iters[j].end_index) - 1) :
                   C33_Covered(iters[j].fetched, i)
C33_MapFailureIsHarmless ==
    [][/\ C33_MapRequestFails =>
            /\ pc' = "idle" /\ result'.op = "setup" /\ result'.status = "ok"
            /\ non_empty_ranges' = NoMap
       /\ pc # "new" => non_empty_ranges' = non_empty_ranges
       /\ C33_NoMap => C33_AllFetched]_vars
\* without the map a read fetched a chunk that lies in a hole
C33_Witness ==
    /\ C33_NoMap /\ nfail = 1 /\ pc = "idle"
    /\ result.op = "read" /\ result.status = "ok" /\ Len(result.data) > 0
    /\ \E k \in 1..Len(requests) :
          /\ requests[k].by = "read"
          /\ \A i \in requests[k].lo..requests[k].hi : i \notin pages
    /\ \E k \in 1..Len(requests) : requests[k].kind = "pages"

\* C34: after a successful initial request on a blob of F > 0 bytes, size is
\* the length of the requested range clipped to the blob: min(F - start,
\* end - start + 1) with an end range, F - start with a start range only, F
\* with no range; it is never negative and no later step changes it.
C34_Started == pc \notin {"new", "failed"} /\ blob_len > 0
C34_SizeIsClippedRange ==
    [][/\ C34_Started =>
            /\ file_size = blob_len
            /\ size >= 0
            /\ end_range # None =>
                   size = Min(blob_len - start_range, end_range - start_range + 1)
            /\ (end_range = None /\ start_range # None) =>
                   size = blob_len - start_range
            /\ (end_range = None /\ start_range = None) => size = blob_len
       /\ pc # "new" => size' = size /\ file_size' = file_size]_vars
\* the end of the range lies past the end of the blob, and a call returned
C34_Witness ==
    /\ C34_Started /\ pc = "idle" /\ ncalls > 0
    /\ end_range # None /\ end_range >= blob_len
    /\ size = blob_len - start_range
    /\ size < end_range - start_range + 1
    /\ result.status = "ok" /\ Len(result.data) = size

\* C35: in bytes mode, no fetch having failed, a read(n) with n > 0 that
\* returns has returned exactly min(n, size - read_offset) bytes, read_offset
\* being the one the call started from: never fewer than asked for while
\* data remains, and nothing only when read_offset = size.
C35_ReadReturned ==
    /\ pc = "idle" /\ nfail = 0
    /\ result.op = "read" /\ result.status = "ok"
    /\ result.args[1] > 0 /\ text_mode # "text"
C35_ExactRead ==
    C35_ReadReturned =>
        Len(result.data) =
            Min(result.args[1], size - (read_offset - Len(result.data)))
\* the same of a blob that is not encrypted: it holds
C35_ExactReadOfPlainBlob == ~encrypted => C35_ExactRead

\* C36: in bytes mode without encryption, between the calls of read, readall
\* and readinto, whether they returned or raised, read_offset =
\* download_offset - (len(current_content) - current_content_offset): what was
\* downloaded and not delivered is the unread tail of the buffered chunk.
\* The downloader of a scheduler therefore starts at download_start +
\* download_offset, in readinto (which starts it at read_offset, the buffer
\* flushed) as in read.
C36_BetweenCalls == pc = "idle" /\ text_mode # "text" /\ ~encrypted
C36_UnreadTail == Len(current_content) - current_content_offset
C36_OffsetsAgree ==
    /\ C36_BetweenCalls => read_offset = download_offset - C36_UnreadTail
    /\ (pc \in {"sched", "drain"} /\ ~encrypted) =>
           /\ dls[call.run].start_index = download_start + download_offset
           /\ dls[call.run].start_index = download_start + read_offset
\* a readinto has raised after a read left part of the buffer unread
C36_Witness ==
    /\ C36_BetweenCalls /\ raised
    /\ result.op = "readinto" /\ result.status = "http"
    /\ read_offset = download_offset /\ read_offset > 1 /\ read_offset < size
    /\ Len(delivered) = 1

\* C37: between calls read_offset is the number of bytes handed to the
\* caller so far, by the results of read and in the sinks of readinto, also
\* after a read or readinto that raised because a chunk fetch failed: a
\* failed call does not move read_offset past data the caller never got.
\* (Stated for a download without encoding, where the only calls that raise
\* after their checks are those whose fetch failed.)
C37_ReadOffsetIsDelivered ==
    (pc = "idle" /\ ~encoding) => read_offset = Len(delivered)
\* the same while no fetch has failed: it holds
C37_WhileNothingFails ==
    (pc = "idle" /\ ~encoding /\ nfail = 0) => read_offset = Len(delivered)

\* ------------------------------------------------------ two iterators
\* a whole-blob download of bytes whose consumer may hold one iterator more
InitI ==
    /\ etag = 0 /\ mac = TRUE /\ if_match = None
    /\ pages = NoMap /\ encrypted = FALSE /\ non_empty_ranges = NoMap
    /\ blob_len \in 0..MaxBlob
    /\ max_chunk_get_size \in 1..MaxChunk
    /\ max_single_get_size \in 1..MaxSingle
    /\ max_concurrency \in 1..MaxConc
    /\ validate_content = FALSE
    /\ start_range = None /\ end_range = None
    /\ encoding = FALSE /\ wide = FALSE
    /\ size = None /\ file_size = 0
    /\ current_content = <<>>
    /\ download_offset = 0 /\ raw_download_offset = 0
    /\ read_offset = 0 /\ current_content_offset = 0
    /\ text_mode = "unset" /\ decoder = <<>> /\ first_chunk = TRUE
    /\ pc = "new"
    /\ call = [op |-> "none"]
    /\ stream = [buf |-> <<>>, pos |-> 0, run |-> 0]
    /\ dls = <<>> /\ tasks = {} /\ iters = <<>>
    /\ result = Outcome("none", <<>>, "ok", <<>>, 0)
    /\ requests = <<>> /\ delivered = <<>> /\ progress = <<>> /\ raised = FALSE
    /\ ncalls = 0 /\ nfail = 0
\* chunks() called once more
ChunksAgain == Len(iters) = MaxIters /\ Chunks(MaxIters + 1)
NextI == Next \/ ChunksAgain
SpecI == InitI /\ [][NextI]_vars

\* C38: chunks() and every step of an iterator it returned leave the facade
\* as it was: the four offsets, the buffered chunk, the first-chunk flag and
\* the mode, and with them everything else a later read or readinto works
\* from (the size, the downloaders, the futures, the requests of the facade,
\* what was delivered and reported); and a step of one iterator, or a new
\* iterator, leaves every other iterator as it was.
C38_IteratorStep ==
    /\ pc = "idle" /\ pc' = "idle"
    /\ result'.op \in {"chunks", "anext"}
    /\ (iters' # iters \/ result' # result)
C38_OthersUntouched ==
    /\ Len(iters') >= Len(iters)
    /\ Len(iters') > Len(iters) =>
           \A j \in 1..Len(iters) : iters'[j] = iters[j]
    /\ Len(iters') = Len(iters) =>
           \A j, k \in 1..Len(iters) :
               (iters'[j] # iters[j] /\ iters'[k] # iters[k]) => j = k
C38_ChunksLeaveTheFacade ==
    [][C38_IteratorStep =>
          /\ UNCHANGED <<download_offset, raw_download_offset, read_offset,
                         current_content_offset, current_content, first_chunk,
                         text_mode>>
          /\ UNCHANGED <<confVars, size, file_size, decoder, if_match,
                         non_empty_ranges, call, stream, dls, tasks, requests,
                         delivered, progress, raised>>
          /\ C38_OthersUntouched]_vars
\* two iterators of a stream that was partly read stand at different chunks
C38_Witness ==
    /\ pc = "idle" /\ Len(iters) = 2 /\ read_offset > 0 /\ read_offset < size
    /\ Len(iters[1].out) = 2 /\ Len(iters[2].out) = 1
    /\ iters[1].fetched # <<>> /\ iters[2].fetched # <<>>
    /\ iters[1].next # iters[2].next
    /\ result.op = "anext" /\ result.status = "ok"

\* C39: an iterator of chunks() never yields an empty chunk nor one longer
\* than the chunk size; every chunk it yields but the last has exactly the
\* chunk size, whatever the length of the first buffered content; when it
\* has signalled the end, no fetch having failed, the bytes it yielded are
\* size many; it yields nothing when size = 0; and once it has signalled the
\* end it signals it again on every later call, without a fetch.
RECURSIVE C39_Total(_)
C39_Total(out) ==
    IF out = <<>> THEN 0 ELSE Len(Head(out)) + C39_Total(Tail(out))
C39_Chunks(it) ==
    /\ \A k \in 1..Len(it.out) :
          Len(it.out[k]) > 0 /\ Len(it.out[k]) <= max_chunk_get_size
    /\ \A k \in 1..(Len(it.out) - 1) : Len(it.out[k]) = max_chunk_get_size
    /\ it.size = 0 => it.out = <<>>
    /\ (it.complete /\ nfail = 0) => C39_Total(it.out) = it.size
C39_EndIsFinal ==
    \A j \in 1..Len(iters) :
        (/\ iters[j].complete /\ pc = "idle" /\ pc' = "idle"
         /\ result'.op = "anext" /\ result'.n = j
         /\ (result' # result \/ iters' # iters)) =>
            /\ result'.status = "stop"
            /\ iters' = iters /\ requests' = requests
C39_IteratorYieldsSize ==
    [][/\ \A j \in 1..Len(iters') : C39_Chunks(iters'[j])
       /\ C39_EndIsFinal]_vars
\* the same without the count of the bytes yielded: it holds
C39_Shape(it) ==
    /\ \A k \in 1..Len(it.out) :
          Len(it.out[k]) > 0 /\ Len(it.out[k]) <= max_chunk_get_size
    /\ \A k \in 1..(Len(it.out) - 1) : Len(it.out[k]) = max_chunk_get_size
    /\ it.size = 0 => it.out = <<>>
    /\ (it.complete /\ nfail = 0 /\ it.has_dl) => C39_Total(it.out) = it.size
C39_ShapeAndEnd ==
    [][/\ \A j \in 1..Len(iters') : C39_Shape(iters'[j])
       /\ C39_EndIsFinal]_vars

====
